---- MODULE Spec2Model ----
(***************************************************************************)
(* Kramers-Kronig validation engine of library/algorithms/kramers_kronig.py *)
(*                                                                         *)
(***************************************************************************)
EXTENDS Integers, Sequences, FiniteSets, TLC

\* ------------------------------------------------------------------------
\* Bounds of the model
\* ------------------------------------------------------------------------
MaxN == 4          \* longest input array
MaxFreq == 5       \* frequencies are drawn from 1..MaxFreq (plus invalid ones)
SigBits == 13      \* bits of a float's significand
KernelReach == 3   \* taps kept on each side of the Hilbert kernel stand-in

\* ------------------------------------------------------------------------
\* Float arithmetic
\*
\* A float is <<"fin", m, e>>, the number m * 2^e with m an integer of at most
\* SigBits bits (odd, or 0 with e = 0, so every number has one representation),
\* or one of the specials <<"nan", 0, 0>>, <<"inf", 1, 0>>, <<"inf", -1, 0>>.
\* Every operation rounds its exact result to the nearest representable number,
\* ties to even, as IEEE-754 binary64 does with 53 bits; the exponent range is
\* not limited.
\* ------------------------------------------------------------------------
NaN == <<"nan", 0, 0>>
PosInf == <<"inf", 1, 0>>
NegInf == <<"inf", 0 - 1, 0>>

IAbs(a) == IF a < 0 THEN 0 - a ELSE a
ISign(a) == IF a < 0 THEN 0 - 1 ELSE 1
IMin(a, b) == IF a < b THEN a ELSE b
IMax(a, b) == IF a < b THEN b ELSE a

\* Number of bits of n >= 0.
RECURSIVE BitLen(_)
BitLen(n) ==
    IF n >= 16 THEN 4 + BitLen(n \div 16)
    ELSE IF n >= 4 THEN (IF n >= 8 THEN 4 ELSE 3)
    ELSE IF n >= 2 THEN 2 ELSE n

\* n / 2^k rounded to the nearest integer, ties to even (n >= 0, k >= 1).
RoundShift(n, k) ==
    LET q == n \div (2 ^ k)
        r == n % (2 ^ k)
        half == 2 ^ (k - 1)
    IN  IF r > half \/ (r = half /\ q % 2 = 1) THEN q + 1 ELSE q

RECURSIVE Canon(_, _)
Canon(m, e) ==
    IF m % 2 # 0 THEN <<"fin", m, e>>
    ELSE IF m = 0 THEN <<"fin", 0, 0>>
    ELSE IF m % 16 = 0 THEN Canon(m \div 16, e + 4)
    ELSE Canon(m \div 2, e + 1)

\* The float nearest to m * 2^e.
FRound(m, e) ==
    LET k == BitLen(IAbs(m)) - SigBits
    IN  IF k <= 0 THEN Canon(m, e)
        ELSE Canon(ISign(m) * RoundShift(IAbs(m), k), e + k)

F(n) == FRound(n, 0)
Zero == F(0)
One == F(1)
Two == F(2)
Half == FRound(1, 0 - 1)

isfinite(x) == x[1] = "fin"
isnan(x) == x[1] = "nan"

\* Position of the leading bit: 2^(Top - 1) <= |x| < 2^Top.
Top(x) == BitLen(IAbs(x[2])) + x[3]

FNeg(x) == <<x[1], 0 - x[2], x[3]>>
FAbs(x) == <<x[1], IAbs(x[2]), x[3]>>

FAdd(x, y) ==
    IF x[2] = 0 THEN y
    ELSE IF y[2] = 0 THEN x
    ELSE IF Top(x) - Top(y) > SigBits + 1 THEN x
    ELSE IF Top(y) - Top(x) > SigBits + 1 THEN y
    ELSE LET e == IMin(x[3], y[3])
         IN  FRound(x[2] * 2 ^ (x[3] - e) + y[2] * 2 ^ (y[3] - e), e)

FSub(x, y) == FAdd(x, FNeg(y))

FMul(x, y) == IF x[2] = 0 \/ y[2] = 0 THEN Zero ELSE FRound(x[2] * y[2], x[3] + y[3])

\* x / y for y # 0: SigBits + 2 quotient bits and a sticky bit, then rounded.
FDiv(x, y) ==
    LET s == SigBits + 2 + BitLen(IAbs(y[2])) - BitLen(IAbs(x[2]))
        n == IAbs(x[2]) * 2 ^ s
        d == IAbs(y[2])
        q == 2 * (n \div d) + (IF n % d = 0 THEN 0 ELSE 1)
    IN  IF x[2] = 0 THEN Zero
        ELSE FRound(ISign(x[2]) * ISign(y[2]) * q, x[3] - y[3] - s - 1)

FSgn(x) == IF x[2] > 0 THEN 1 ELSE IF x[2] < 0 THEN 0 - 1 ELSE 0
FLt(x, y) == FSgn(FSub(x, y)) < 0
FLeq(x, y) == FSgn(FSub(x, y)) <= 0
FMax(x, y) == IF FLt(x, y) THEN y ELSE x

RECURSIVE ISqrtIn(_, _, _)
ISqrtIn(n, lo, hi) ==
    IF lo = hi THEN lo
    ELSE LET mid == (lo + hi + 1) \div 2
         IN  IF mid * mid <= n THEN ISqrtIn(n, mid, hi) ELSE ISqrtIn(n, lo, mid - 1)

\* sqrt(x) for x >= 0.
FSqrt(x) ==
    LET b == BitLen(x[2])
        s0 == 2 * SigBits + 2 - b
        s == IF (x[3] - s0) % 2 = 0 THEN s0 ELSE s0 - 1
        n == x[2] * 2 ^ s
        r == ISqrtIn(n, 0, 2 ^ (SigBits + 1))
        q == 2 * r + (IF r * r = n THEN 0 ELSE 1)
    IN  IF x[2] = 0 THEN Zero ELSE FRound(q, ((x[3] - s) \div 2) - 1)

\* int(x): truncation toward zero.
FInt(x) ==
    IF x[3] >= 0 THEN x[2] * 2 ^ x[3]
    ELSE ISign(x[2]) * (IAbs(x[2]) \div 2 ^ (0 - x[3]))

\* The float nearest to n / d; n divided by 10 k times.
Q(n, d) == FDiv(F(n), F(d))
RECURSIVE Exp10(_, _)
Exp10(n, k) == IF k = 0 THEN F(n) ELSE FDiv(Exp10(n, k - 1), F(10))

\* np.pi, the float nearest to pi: 3217 * 2^-10 at 13 bits.
pi == <<"fin", 3217, 0 - 10>>
TwoPi == FMul(Two, pi)

None == <<>>

\* An array built elementwise, as a stored sequence.
Array(f) == f \o <<>>

\* ------------------------------------------------------------------------
\* Core KK primitives
\* ------------------------------------------------------------------------

\* Integrand value at panel endpoint k for target frequency wi, with the
\* per-endpoint guard: a zero denominator drops that endpoint only.
PVEndpoint(omega, eps_imag, k, wi) ==
    LET wk == omega[k]
        denom == FSub(FMul(wk, wk), FMul(wi, wi))
    IN  IF denom # Zero THEN FDiv(FMul(wk, eps_imag[k]), denom) ELSE Zero

\* The coarser guard: a panel that touches the singular sample is dropped.
PVPanelDropSingular(omega, eps_imag, j, wi, integral) ==
    LET fj == PVEndpoint(omega, eps_imag, j, wi)
        fj1 == PVEndpoint(omega, eps_imag, j + 1, wi)
    IN  IF omega[j] = wi \/ omega[j + 1] = wi THEN integral
        ELSE FAdd(integral, FMul(FMul(Half, FAdd(fj, fj1)), FSub(omega[j + 1], omega[j])))
\* One pass of the inner loop body: panel j added to the running integral.
PVPanel(omega, eps_imag, j, wi, integral) ==
    LET fj == PVEndpoint(omega, eps_imag, j, wi)
        fj1 == PVEndpoint(omega, eps_imag, j + 1, wi)
    IN  FAdd(integral, FMul(FMul(Half, FAdd(fj, fj1)), FSub(omega[j + 1], omega[j])))

RECURSIVE PVIntegral(_, _, _, _)
PVIntegral(omega, eps_imag, wi, j) ==
    IF j = 0 THEN Zero
    ELSE PVPanel(omega, eps_imag, j, wi, PVIntegral(omega, eps_imag, wi, j - 1))

PVRow(eps_inf, integral) == FAdd(eps_inf, FMul(FDiv(Two, pi), integral))

\* Pure-Python reference: rows in index order, panels in index order.
_kk_trapz_python(omega, eps_imag, eps_inf) ==
    Array([i \in 1..Len(omega) |->
        PVRow(eps_inf, PVIntegral(omega, eps_imag, omega[i], Len(omega) - 1))])

\* Numba kernel, one row task i (the body of the prange loop): the same
\* per-row formula with a task-local accumulator.
_kk_trapz_numba_row(omega, eps_imag, eps_inf, i) ==
    PVRow(eps_inf, PVIntegral(omega, eps_imag, omega[i], Len(omega) - 1))

\* Singly subtractive KK: endpoint value with the doubly singular denominator.
SSKKEndpoint(w, y, k, wi2, w02) ==
    LET wk == w[k]
        denom == FMul(FSub(FMul(wk, wk), wi2), FSub(FMul(wk, wk), w02))
    IN  IF denom # Zero THEN FDiv(FMul(wk, y[k]), denom) ELSE Zero

RECURSIVE SSKKIntegral(_, _, _, _, _)
SSKKIntegral(w, y, wi2, w02, j) ==
    IF j = 0 THEN Zero
    ELSE LET fj == SSKKEndpoint(w, y, j, wi2, w02)
             fj1 == SSKKEndpoint(w, y, j + 1, wi2, w02)
         IN  FAdd(SSKKIntegral(w, y, wi2, w02, j - 1),
                  FMul(FMul(Half, FAdd(fj, fj1)), FSub(w[j + 1], w[j])))

SSKKRow(w, y, dk_anchor, omega_anchor, i) ==
    LET wi2 == FMul(w[i], w[i])
        w02 == FMul(omega_anchor, omega_anchor)
        num_factor == FDiv(FMul(Two, FSub(wi2, w02)), pi)
    IN  FAdd(dk_anchor, FMul(num_factor, SSKKIntegral(w, y, wi2, w02, Len(w) - 1)))

\* A kernel that adds eps_inf to every row.
_kk_trapz_sskk_plus_eps_inf(omega, eps_imag, eps_inf, dk_anchor, omega_anchor) ==
    Array([i \in 1..Len(omega) |->
        FAdd(eps_inf, SSKKRow(omega, eps_imag, dk_anchor, omega_anchor, i))])

\* eps_inf is a parameter of the kernel and is not read by it.
_kk_trapz_sskk(omega, eps_imag, eps_inf, dk_anchor, omega_anchor) ==
    Array([i \in 1..Len(omega) |-> SSKKRow(omega, eps_imag, dk_anchor, omega_anchor, i)])

\* ------------------------------------------------------------------------
\* Utility helpers
\* ------------------------------------------------------------------------
diff(a) == Array([i \in 1..(Len(a) - 1) |-> FSub(a[i + 1], a[i])])

rtol == Exp10(1, 5)
atol == Exp10(1, 8)

\* np.allclose(diffs, diffs[0]): |d - d0| <= atol + rtol * |d0| elementwise.
_is_grid_uniform(frequency) ==
    LET diffs == diff(frequency)
    IN  \A i \in 1..Len(diffs) :
            FLeq(FAbs(FSub(diffs[i], diffs[1])), FAdd(atol, FMul(rtol, FAbs(diffs[1]))))

RECURSIVE SeqMax(_, _)
SeqMax(a, n) == IF n = 1 THEN a[1] ELSE FMax(SeqMax(a, n - 1), a[n])

\* scipy.signal.find_peaks(x, height=thr): an interior plateau [l, r] of equal
\* samples with strictly lower neighbours on both sides is one peak.
find_peaks(x, thr) ==
    {l \in 2..(Len(x) - 1) :
        /\ FLt(x[l - 1], x[l])
        /\ FLeq(thr, x[l])
        /\ \E r \in l..(Len(x) - 1) :
              /\ \A m \in l..r : x[m] = x[l]
              /\ FLt(x[r + 1], x[l])}

_detect_peaks(df_values) ==
    LET thr == FMax(Zero, FMul(Exp10(1, 1), SeqMax(df_values, Len(df_values))))
    IN  Cardinality(find_peaks(df_values, thr))

\* ------------------------------------------------------------------------
\* Array helpers (numpy)
\* ------------------------------------------------------------------------

RECURSIVE SeqSum(_, _)
SeqSum(a, n) == IF n = 0 THEN Zero ELSE FAdd(SeqSum(a, n - 1), a[n])

\* np.mean: the sum divided by the count; NaN for an empty array.
mean(a) == IF Len(a) = 0 THEN NaN ELSE FDiv(SeqSum(a, Len(a)), F(Len(a)))

\* a[start:] with Python's slice rules (a negative start counts from the end).
SliceFrom(a, start) ==
    LET n == Len(a)
        lo == IF start < 0 THEN IMax(n + start, 0) ELSE IMin(start, n)
    IN  Array([i \in 1..(n - lo) |-> a[lo + i]])

RECURSIVE Insert(_, _)
Insert(sorted, x) ==
    IF sorted = <<>> THEN <<x>>
    ELSE IF FLeq(x, Head(sorted)) THEN <<x>> \o sorted
    ELSE <<Head(sorted)>> \o Insert(Tail(sorted), x)

RECURSIVE Sort(_, _)
Sort(a, n) == IF n = 0 THEN <<>> ELSE Insert(Sort(a, n - 1), a[n])

\* np.median: the middle sample of the sorted array, or the mean of the two
\* middle samples.
median(a) ==
    LET s == Sort(a, Len(a))
        n == Len(a)
    IN  IF n % 2 = 1 THEN s[(n + 1) \div 2]
        ELSE FDiv(FAdd(s[n \div 2], s[n \div 2 + 1]), Two)

\* np.quantile(a, q), linear method: virtual index q * (n - 1), interpolated
\* between its two neighbours from the nearer one.
quantile(a, q) ==
    LET s == Sort(a, Len(a))
        n == Len(a)
        pos == FMul(q, F(n - 1))
        lo == FInt(pos)
        t == FSub(pos, F(lo))
        va == s[lo + 1]
        vb == s[IMin(lo + 2, n)]
        d == FSub(vb, va)
    IN  IF FLeq(Half, t) THEN FSub(vb, FMul(d, FSub(One, t)))
        ELSE FAdd(va, FMul(d, t))

\* np.linspace(start, stop, num): the last sample is stop itself; a single
\* sample is start.
linspace(start, stop, num) ==
    LET step == FDiv(FSub(stop, start), F(num - 1))
    IN  Array([i \in 1..num |->
            IF num = 1 THEN start
            ELSE IF i = num THEN stop
            ELSE FAdd(start, FMul(F(i - 1), step))])

\* ------------------------------------------------------------------------
\* High-frequency limit
\* ------------------------------------------------------------------------

\* scipy.stats.linregress(x, y): the intercept of the least-squares line.
linregress_intercept(x, y) ==
    LET n == Len(x)
        xmean == mean(x)
        ymean == mean(y)
        ssxm == mean(Array([i \in 1..n |-> FMul(FSub(x[i], xmean), FSub(x[i], xmean))]))
        ssxym == mean(Array([i \in 1..n |-> FMul(FSub(x[i], xmean), FSub(y[i], ymean))]))
        slope == FDiv(ssxym, ssxm)
    IN  FSub(ymean, FMul(slope, xmean))

TailSize(N, tail_fraction, min_tail_points) ==
    IMin(IMax(min_tail_points, FInt(FMul(tail_fraction, F(N)))), N)

\* A 'fit' that never falls back.
EstimateFromTailAlwaysFits(tail_freq, tail_dk, method) ==
    LET x == Array([i \in 1..Len(tail_freq) |-> FDiv(One, FMul(tail_freq[i], tail_freq[i]))])
    IN  IF method = "fit" THEN linregress_intercept(x, tail_dk) ELSE mean(tail_dk)

\* Lines 393-402: the estimate from the tail samples.
EstimateFromTail(tail_freq, tail_dk, method) ==
    LET x == Array([i \in 1..Len(tail_freq) |-> FDiv(One, FMul(tail_freq[i], tail_freq[i]))])
    IN  IF method = "fit"
        THEN IF Len(tail_dk) < 3 THEN mean(tail_dk)
             ELSE linregress_intercept(x, tail_dk)
        ELSE mean(tail_dk)

_estimate_eps_inf(frequency, dk, method, tail_fraction, min_tail_points) ==
    LET N == Len(frequency)
        n_tail == TailSize(N, tail_fraction, min_tail_points)
        tail_freq == SliceFrom(frequency, 0 - n_tail)
        tail_dk == SliceFrom(dk, 0 - n_tail)
    IN  EstimateFromTail(tail_freq, tail_dk, method)

\* ------------------------------------------------------------------------
\* Hilbert-based KK
\* ------------------------------------------------------------------------

\* A call that can raise returns [ok, err, val].
Ok(v) == [ok |-> TRUE, err |-> "", val |-> v]
Raise(msg) == [ok |-> FALSE, err |-> msg, val |-> <<>>]

ErrHilbertPoints == "Need at least 4 points for Hilbert-based KK"
ErrWindow == "Invalid window spec"
ErrInterp == "x and y arrays must have at least 4 entries"
ErrIndex == "index out of bounds"

\* scipy.signal.get_window(window, n), periodic form: the named windows of
\* the model are "boxcar" (all ones) and "triang"; any other name raises.
triang(M) ==
    LET h == (M + 1) \div 2
    IN  Array([i \in 1..M |->
            LET k == IF i <= h THEN i ELSE M + 1 - i
            IN  IF M % 2 = 0 THEN FDiv(F(2 * k - 1), F(M))
                ELSE FDiv(F(2 * k), F(M + 1))])

\* A window given as (name, parameter): ("kaiser", beta) is
\* i0(beta * sqrt(1 - t^2)) / i0(beta), which is 1 everywhere for beta = 0, the
\* one beta the model passes.  "kaiser" without its parameter raises.
get_window(window, n) ==
    IF window = <<"boxcar">> THEN Ok(Array([i \in 1..n |-> One]))
    ELSE IF window = <<"triang">> THEN Ok(SubSeq(triang(n + 1), 1, n))
    ELSE IF window = <<"kaiser", Zero>> THEN Ok(Array([i \in 1..n |-> One]))
    ELSE Raise("unknown window")

\* np.imag(scipy.signal.hilbert(x)): the library computes the discrete Hilbert
\* transform of x by FFT.  Its kernel is h[k] = 2 / (pi k) for odd k and 0 for
\* even k; the stand-in applies that kernel circularly, truncated to
\* |k| <= KernelReach.
HilbertTap(x, m, k) ==
    LET L == Len(x)
        before == x[((m - 1 - k) % L) + 1]
        after == x[((m - 1 + k) % L) + 1]
    IN  FMul(FDiv(Two, FMul(pi, F(k))), FSub(before, after))

RECURSIVE HilbertSample(_, _, _)
HilbertSample(x, m, k) ==
    IF k < 1 THEN Zero
    ELSE IF k % 2 = 0 THEN HilbertSample(x, m, k - 1)
    ELSE FAdd(HilbertSample(x, m, k - 2), HilbertTap(x, m, k))

hilbert_imag(x) == Array([m \in 1..Len(x) |-> HilbertSample(x, m, KernelReach)])

\* Odd extension across 0: [-x[::-1], 0, x].
OddExtension(x) ==
    LET n == Len(x)
    IN  Array([p \in 1..(2 * n + 1) |->
            IF p <= n THEN FNeg(x[n + 1 - p])
            ELSE IF p = n + 1 THEN Zero
            ELSE x[p - n - 1]])

\* Padding put in front of the series.
ZeroPadFront(x_ext, pad_factor) ==
    IF pad_factor > 1
    THEN [p \in 1..((pad_factor - 1) * Len(x_ext)) |-> Zero] \o x_ext
    ELSE x_ext

\* np.pad(x_ext, (0, pad_len)) when pad_factor > 1.
ZeroPad(x_ext, pad_factor) ==
    IF pad_factor > 1
    THEN x_ext \o [p \in 1..((pad_factor - 1) * Len(x_ext)) |-> Zero]
    ELSE x_ext

\* h_ext[n + 1:], padding included.
PositivePartToEnd(h_ext, n) == SliceFrom(h_ext, n + 1)

\* h_ext[:(2n + 1)][n + 1:], the n samples after the central zero.
PositivePart(h_ext, n) ==
    SliceFrom(SubSeq(h_ext, 1, IMin(2 * n + 1, Len(h_ext))), n + 1)

Windowed(x, window, n) ==
    IF window = None THEN Ok(x)
    ELSE LET w == get_window(window, n)
         IN  IF w.ok THEN Ok(Array([i \in 1..n |-> FMul(x[i], w.val[i])]))
             ELSE Raise(ErrWindow)

_kk_hilbert(omega, eps_imag, eps_inf, window, pad_factor) ==
    LET n == Len(omega)
        x == Windowed(eps_imag, window, n)
        x_ext == ZeroPad(OddExtension(x.val), pad_factor)
        h_pos == PositivePart(hilbert_imag(x_ext), n)
    IN  IF n < 4 THEN Raise(ErrHilbertPoints)
        ELSE IF ~x.ok THEN x
        ELSE Ok(Array([k \in 1..Len(h_pos) |-> FAdd(eps_inf, h_pos[k])]))

\* scipy.interpolate.interp1d(xs, ys, kind='cubic', fill_value='extrapolate'):
\* the library fits a cubic spline and needs at least 4 knots.  The stand-in
\* interpolates linearly between the two knots around x (the end segments
\* extrapolate); like the spline it returns ys[i] at xs[i].
RECURSIVE Segment(_, _, _)
Segment(xs, x, i) ==
    IF i >= Len(xs) - 1 \/ FLeq(x, xs[i + 1]) THEN i ELSE Segment(xs, x, i + 1)

interp_at(xs, ys, x) ==
    LET i == Segment(xs, x, 1)
        t == FDiv(FSub(x, xs[i]), FSub(xs[i + 1], xs[i]))
    IN  IF \E k \in 1..Len(xs) : xs[k] = x
        THEN ys[CHOOSE k \in 1..Len(xs) : xs[k] = x]
        ELSE FAdd(ys[i], FMul(t, FSub(ys[i + 1], ys[i])))

interp1d(xs, ys, xnew) ==
    IF Len(xs) < 4 THEN Raise(ErrInterp)
    ELSE Ok(Array([k \in 1..Len(xnew) |-> interp_at(xs, ys, xnew[k])]))

_kk_resample_hilbert(frequency, eps_imag, eps_inf, window, resample_points, pad_factor) ==
    LET omega == Array([i \in 1..Len(frequency) |-> FMul(TwoPi, frequency[i])])
        num == IF resample_points = None \/ resample_points = <<0>>
               THEN IMin(8192, 4 * Len(frequency))
               ELSE resample_points[1]
        omu == linspace(omega[1], omega[Len(omega)], num)
        eps_imag_u == interp1d(omega, eps_imag, omu)
        dk_u == _kk_hilbert(omu, eps_imag_u.val, eps_inf, window, pad_factor)
        back == interp1d(omu, dk_u.val, omega)
    IN  IF ~eps_imag_u.ok THEN eps_imag_u
        ELSE IF ~dk_u.ok THEN dk_u
        ELSE back

\* ------------------------------------------------------------------------
\* Public API: validate_kramers_kronig, statement block by statement block
\* ------------------------------------------------------------------------
ErrLength == "Input arrays must have the same length"
ErrCount == "At least 2 data points are required"
ErrIncreasing == "Frequencies must be strictly increasing"
ErrPositive == "Frequencies must be positive"
ErrFinite == "Inputs contain non-finite values"

\* A comparison that lets NaN through.
DiffPositiveOrNaN(a, b) ==
    IF isnan(a) \/ isnan(b) THEN TRUE
    ELSE IF ~isfinite(a) /\ ~isfinite(b) THEN a = PosInf /\ b = NegInf
    ELSE IF ~isfinite(a) THEN a = PosInf
    ELSE IF ~isfinite(b) THEN b = NegInf
    ELSE FLt(b, a)

\* a - b > 0 for floats a, b: false when the difference is NaN.
DiffPositive(a, b) ==
    IF isnan(a) \/ isnan(b) THEN FALSE
    ELSE IF ~isfinite(a) /\ ~isfinite(b) THEN a = PosInf /\ b = NegInf
    ELSE IF ~isfinite(a) THEN a = PosInf
    ELSE IF ~isfinite(b) THEN b = NegInf
    ELSE FLt(b, a)

\* x <= 0 for a float x: false for NaN.
NonPositive(x) ==
    IF isnan(x) THEN FALSE
    ELSE IF ~isfinite(x) THEN x = NegInf
    ELSE FLeq(x, Zero)

AllFinite(a) == \A i \in 1..Len(a) : isfinite(a[i])

\* The input checks with positivity tested before monotonicity.
InputErrorPositiveFirst(frequency, dk, df) ==
    IF Len(frequency) # Len(dk) \/ Len(frequency) # Len(df) THEN ErrLength
    ELSE IF Len(frequency) < 2 THEN ErrCount
    ELSE IF \E i \in 1..Len(frequency) : NonPositive(frequency[i]) THEN ErrPositive
    ELSE IF ~(\A i \in 1..(Len(frequency) - 1) : DiffPositive(frequency[i + 1], frequency[i]))
        THEN ErrIncreasing
    ELSE IF ~AllFinite(frequency) \/ ~AllFinite(dk) \/ ~AllFinite(df) THEN ErrFinite
    ELSE ""
\* The five input checks in source order: the message raised, or "" if none.
InputError(frequency, dk, df) ==
    IF Len(frequency) # Len(dk) \/ Len(frequency) # Len(df) THEN ErrLength
    ELSE IF Len(frequency) < 2 THEN ErrCount
    ELSE IF ~(\A i \in 1..(Len(frequency) - 1) : DiffPositive(frequency[i + 1], frequency[i]))
        THEN ErrIncreasing
    ELSE IF \E i \in 1..Len(frequency) : NonPositive(frequency[i]) THEN ErrPositive
    ELSE IF ~AllFinite(frequency) \/ ~AllFinite(dk) \/ ~AllFinite(df) THEN ErrFinite
    ELSE ""

\* Selection that ignores the grid.
SelectMethodHilbertOnAuto(method, is_uniform) ==
    IF method = "auto" THEN "hilbert" ELSE method
\* Lines 325-329.
SelectMethod(method, is_uniform) ==
    IF method = "auto" THEN (IF is_uniform THEN "hilbert" ELSE "trapz")
    ELSE method

\* dk[idx0] with Python's index rules: a negative index counts from the end,
\* an index outside [-N, N) raises IndexError.  The 1-based position, or 0.
PyIndex(n, idx) ==
    IF idx >= 0 /\ idx < n THEN idx + 1
    ELSE IF idx < 0 /\ idx >= 0 - n THEN n + idx + 1
    ELSE 0

\* The middle index whatever the caller asked for.
AnchorIdx0Middle(anchor_index, size) == size \div 2

\* idx0 = int(anchor_index) if anchor_index is not None else size // 2
AnchorIdx0(anchor_index, size) ==
    IF anchor_index # None THEN anchor_index[1] ELSE size \div 2

\* A tag that ignores the grid.
TransformDetailByMethod(actual_method, is_uniform, use_sskk) ==
    IF actual_method = "hilbert" THEN "hilbert-uniform"
    ELSE (IF use_sskk THEN "trapz-sskk" ELSE "trapz-pv")
\* The method-detail tag of the transform branch taken.
TransformDetail(actual_method, is_uniform, use_sskk) ==
    IF actual_method = "hilbert"
    THEN (IF ~is_uniform THEN "hilbert-resample" ELSE "hilbert-uniform")
    ELSE (IF use_sskk THEN "trapz-sskk" ELSE "trapz-pv")

\* A test for a supplied value that takes 0.0 for none.
ResolveEpsInfIfTruthy(eps_inf, frequency, dk, eps_inf_method, tail_fraction, min_tail_points) ==
    IF eps_inf = None \/ eps_inf = <<Zero>>
    THEN _estimate_eps_inf(frequency, dk, eps_inf_method, tail_fraction, min_tail_points)
    ELSE eps_inf[1]

\* Lines 316-318: "if eps_inf is None" estimates, any supplied value is kept.
ResolveEpsInf(eps_inf, frequency, dk, eps_inf_method, tail_fraction, min_tail_points) ==
    IF eps_inf = None
    THEN _estimate_eps_inf(frequency, dk, eps_inf_method, tail_fraction, min_tail_points)
    ELSE eps_inf[1]

\* A transform step that tests the window before it branches.
TransformWindowFirst(frequency, dk, omega, eps_imag, eps_inf, actual_method, is_uniform, window, resample_points, use_sskk, anchor_index) ==
    IF window # None /\ ~get_window(window, Len(frequency)).ok THEN Raise(ErrWindow)
    ELSE IF actual_method = "hilbert"
    THEN IF ~is_uniform
         THEN _kk_resample_hilbert(frequency, eps_imag, eps_inf, window, resample_points, 2)
         ELSE _kk_hilbert(omega, eps_imag, eps_inf, window, 2)
    ELSE IF use_sskk
         THEN LET idx0 == AnchorIdx0(anchor_index, Len(frequency))
                  at == PyIndex(Len(frequency), idx0)
              IN  IF at = 0 THEN Raise(ErrIndex)
                  ELSE Ok(_kk_trapz_sskk(omega, eps_imag, eps_inf, dk[at], omega[at]))
         ELSE Ok(_kk_trapz_python(omega, eps_imag, eps_inf))

\* The transform branch taken: [ok, err, val |-> dk_kk].
Transform(frequency, dk, omega, eps_imag, eps_inf, actual_method, is_uniform, window, resample_points, use_sskk, anchor_index) ==
    IF actual_method = "hilbert"
    THEN IF ~is_uniform
         THEN _kk_resample_hilbert(frequency, eps_imag, eps_inf, window, resample_points, 2)
         ELSE _kk_hilbert(omega, eps_imag, eps_inf, window, 2)
    ELSE IF use_sskk
         THEN LET idx0 == AnchorIdx0(anchor_index, Len(frequency))
                  at == PyIndex(Len(frequency), idx0)
              IN  IF at = 0 THEN Raise(ErrIndex)
                  ELSE Ok(_kk_trapz_sskk(omega, eps_imag, eps_inf, dk[at], omega[at]))
         ELSE Ok(_kk_trapz_python(omega, eps_imag, eps_inf))

\* Metrics
RelErr(dk_kk, dk) ==
    LET scale == median(Array([i \in 1..Len(dk) |-> FAbs(dk[i])]))
        eps_scale == FMax(Exp10(1, 12), FMul(Exp10(1, 6), scale))
    IN  Array([i \in 1..Len(dk) |->
            FDiv(FAbs(FSub(dk_kk[i], dk[i])), FAdd(FAbs(dk[i]), eps_scale))])

Rmse(dk_kk, dk) ==
    FSqrt(mean(Array([i \in 1..Len(dk) |->
        FMul(FSub(dk_kk[i], dk[i]), FSub(dk_kk[i], dk[i]))])))

\* A verdict that fails at equality.
CausalityStatusStrict(mean_rel, causality_threshold) ==
    IF FLt(mean_rel, causality_threshold) THEN "PASS" ELSE "FAIL"
\* "PASS" if mean_rel <= causality_threshold else "FAIL"
CausalityStatus(mean_rel, causality_threshold) ==
    IF FLeq(mean_rel, causality_threshold) THEN "PASS" ELSE "FAIL"

\* A verdict that fails a spectrum with a loss peak.
ResultOfPeaksVeto(loc, dk, opt) ==
    LET rel_err == RelErr(loc.dk_kk, dk)
        mean_rel == mean(rel_err)
    IN  [kind |-> "result", error |-> "", dk_kk |-> loc.dk_kk,
         mean_relative_error |-> mean_rel,
         median_relative_error |-> median(rel_err),
         q90_relative_error |-> quantile(rel_err, Exp10(9, 1)),
         rmse |-> Rmse(loc.dk_kk, dk),
         causality_status |-> IF loc.num_peaks > 0 THEN "FAIL"
                              ELSE CausalityStatus(mean_rel, opt.causality_threshold),
         eps_inf_estimated |-> loc.eps_inf,
         method_used |-> loc.actual_method,
         method_detail |-> loc.method_detail,
         num_peaks |-> loc.num_peaks,
         is_uniform_grid |-> loc.is_uniform,
         anchor_index |-> opt.anchor_index]

\* Lines 351-376: the metrics, the verdict and the returned dict, from the
\* locals of the call.
ResultOf(loc, dk, opt) ==
    LET rel_err == RelErr(loc.dk_kk, dk)
        mean_rel == mean(rel_err)
    IN  [kind |-> "result", error |-> "", dk_kk |-> loc.dk_kk,
         mean_relative_error |-> mean_rel,
         median_relative_error |-> median(rel_err),
         q90_relative_error |-> quantile(rel_err, Exp10(9, 1)),
         rmse |-> Rmse(loc.dk_kk, dk),
         causality_status |-> CausalityStatus(mean_rel, opt.causality_threshold),
         eps_inf_estimated |-> loc.eps_inf,
         method_used |-> loc.actual_method,
         method_detail |-> loc.method_detail,
         num_peaks |-> loc.num_peaks,
         is_uniform_grid |-> loc.is_uniform,
         anchor_index |-> opt.anchor_index]

\* ------------------------------------------------------------------------
\* State
\* ------------------------------------------------------------------------
VARIABLES
    pc,          \* where the current call stands
    frequency,   \* the caller's arrays; np.asarray(..., dtype=float).reshape(-1)
    dk,          \*   makes no copy of a float array, so the call's locals
    df,          \*   frequency, dk, df are these same arrays
    opt,         \* the keyword options of the call
    loc,         \* locals of validate_kramers_kronig
    result,      \* what the call returned or raised
    steps,       \* statement blocks the current call has run, in order
    par,         \* one run of the PV kernel: its row tasks and its output array
    hist,        \* the calls made so far: what was passed, what came back
    kkv          \* the KramersKronigValidator object and its caller's view of it

vars == <<pc, frequency, dk, df, opt, loc, result, steps, par, hist, kkv>>

DefaultOptions ==
    [method |-> "auto", eps_inf_method |-> "fit", eps_inf |-> None,
     tail_fraction |-> Exp10(1, 1), min_tail_points |-> 3, window |-> None,
     resample_points |-> None, causality_threshold |-> Exp10(5, 2),
     use_sskk |-> TRUE, anchor_index |-> None]

NoLocals ==
    [omega |-> <<>>, eps_imag |-> <<>>, eps_inf |-> None, num_peaks |-> 0,
     is_uniform |-> FALSE, actual_method |-> "", method_detail |-> "",
     dk_kk |-> <<>>]

NoResult ==
    [kind |-> "none", error |-> "", dk_kk |-> <<>>,
     mean_relative_error |-> NaN, median_relative_error |-> NaN,
     q90_relative_error |-> NaN, rmse |-> NaN, causality_status |-> "",
     eps_inf_estimated |-> NaN, method_used |-> "", method_detail |-> "",
     num_peaks |-> 0, is_uniform_grid |-> FALSE, anchor_index |-> None]

Raised(msg) == [NoResult EXCEPT !.kind = "error", !.error = msg]

NoKernel ==
    [omega |-> <<>>, eps_imag |-> <<>>, eps_inf |-> Zero, backend |-> "",
     task |-> <<>>, dk_kk |-> <<>>, joined |-> FALSE]

\* self.results = {}: the empty dict.
NoResults == [k \in {} |-> None]

\* No validator constructed yet.  args is what the constructor was given,
\* op the facade operation under way, ret what the last one gave its caller;
\* cached and calls are the cache and the number of orchestrator calls as the
\* operation began, nvalidate the number of validate() calls so far.
NoValidator ==
    [exists |-> FALSE, df |-> <<>>, method |-> "", eps_inf_method |-> "",
     explicit_eps_inf |-> None, tail_fraction |-> Zero, min_tail_points |-> 0,
     window |-> None, resample_points |-> None, use_sskk |-> FALSE,
     anchor_index |-> None, results |-> NoResults,
     args |-> <<>>, op |-> "", ret |-> [op |-> "", kind |-> "none", value |-> <<>>],
     cached |-> NoResults, calls |-> 0, nvalidate |-> 0]

\* ------------------------------------------------------------------------
\* Inputs of the model
\* ------------------------------------------------------------------------
\* Frequency axes: the strictly increasing grids over 1..MaxFreq that start
\* at 1 and have 2..MaxN samples.
Grids ==
    UNION {{g \in [1..n -> 1..MaxFreq] :
                g[1] = 1 /\ \A i \in 1..(n - 1) : g[i] < g[i + 1]} : n \in 2..MaxN}

Floats(g) == [i \in 1..Len(g) |-> F(g[i])]

Shapes == {"flat", "relax", "zero"}

\* dk and df of a data shape on n samples: a lossless flat spectrum, a
\* falling dk with a loss peak at the second sample, a dk that starts at 0.
ShapeDk(shape, n) ==
    [i \in 1..n |->
        IF shape = "flat" THEN F(2)
        ELSE IF shape = "relax" THEN FAdd(F(2), Q(1, i))
        ELSE F(i - 1)]

ShapeDf(shape, n) ==
    [i \in 1..n |->
        IF shape = "flat" THEN Zero
        ELSE IF shape = "relax" THEN (IF i = 2 THEN Q(1, 4) ELSE Q(1, 8))
        ELSE One]

Data(g, shape) ==
    [frequency |-> Floats(g), dk |-> ShapeDk(shape, Len(g)), df |-> ShapeDf(shape, Len(g))]

ValidData == {Data(g, sh) : g \in Grids, sh \in Shapes}

AnchorChoices(n) == {None} \cup {<<a>> : a \in {0 - 1, 0, 1, n - 1, n}}

Thresholds == {Zero, Exp10(5, 2), One}

\* tail_fraction and min_tail_points: the defaults, a half with no minimum,
\* a tenth with no minimum.
TailChoices == {<<Exp10(1, 1), 3>>, <<Half, 0>>, <<Exp10(1, 1), 0>>}

\* Keyword options of a call: the transform options in every combination,
\* and the other options one or two at a time.
OptionChoices(n) ==
    {[DefaultOptions EXCEPT !.method = m, !.anchor_index = a] :
        m \in {"auto", "hilbert", "trapz"}, a \in AnchorChoices(n)}
    \cup {[DefaultOptions EXCEPT !.method = m, !.use_sskk = FALSE, !.anchor_index = a] :
        m \in {"auto", "hilbert", "trapz"}, a \in {None, <<0>>}}
    \cup {[DefaultOptions EXCEPT !.method = m, !.causality_threshold = t] :
        m \in {"auto", "trapz"}, t \in Thresholds}
    \cup {[DefaultOptions EXCEPT !.method = m, !.eps_inf = <<F(2)>>, !.window = w] :
        m \in {"auto", "hilbert", "trapz"}, w \in {None, <<"triang">>, <<"bogus">>}}
    \cup {[DefaultOptions EXCEPT !.method = "linear", !.use_sskk = u] : u \in BOOLEAN}
    \cup {[DefaultOptions EXCEPT !.method = m, !.eps_inf = e, !.eps_inf_method = em,
                                 !.tail_fraction = tl[1], !.min_tail_points = tl[2]] :
        m \in {"hilbert", "trapz"}, e \in {None, <<Zero>>}, em \in {"mean", "fit"},
        tl \in TailChoices}

\* Arrays that break the input checks, alone and in combination.
SuspectFrequencies ==
    {<<>>, <<F(1)>>, <<F(2), F(1)>>, <<F(1), F(1)>>, <<F(0), F(1)>>,
     <<F(0 - 1), F(1)>>, <<F(0 - 2), F(0 - 1)>>, <<F(0 - 1), F(0 - 2)>>,
     <<F(1), F(0 - 1)>>,
     <<F(1), NaN>>, <<NaN, F(1)>>, <<F(1), PosInf>>, <<NegInf, F(1)>>,
     <<PosInf, PosInf>>, <<F(2), F(1), F(3)>>, <<F(1), F(2)>>, <<F(1), F(2), F(3)>>}

SuspectValues(n) ==
    {[i \in 1..n |-> One], [i \in 1..(n + 1) |-> One],
     [i \in 1..n |-> IF i = n THEN NaN ELSE One],
     [i \in 1..n |-> IF i = 1 THEN PosInf ELSE One]}

SuspectData ==
    UNION {{[frequency |-> f, dk |-> k, df |-> d] :
                k \in SuspectValues(Len(f)), d \in SuspectValues(Len(f))} :
           f \in SuspectFrequencies}

\* ------------------------------------------------------------------------
\* One call of validate_kramers_kronig
\* ------------------------------------------------------------------------
Enter(data, o) ==
    /\ pc = "idle"
    /\ pc' = "validate"
    /\ frequency' = data.frequency
    /\ dk' = data.dk
    /\ df' = data.df
    /\ opt' = o
    /\ loc' = NoLocals
    /\ result' = NoResult
    /\ steps' = <<>>

Call ==
    /\ pc = "idle"
    /\ \/ \E data \in ValidData : \E o \in OptionChoices(Len(data.frequency)) : Enter(data, o)
       \/ \E data \in SuspectData : Enter(data, DefaultOptions)
    /\ UNCHANGED <<par, hist, kkv>>

\* Lines 296-310.
Validate ==
    /\ pc = "validate"
    /\ LET e == InputError(frequency, dk, df)
       IN  IF e # ""
           THEN pc' = "raised" /\ result' = Raised(e)
           ELSE pc' = "prepare" /\ result' = result
    /\ steps' = Append(steps, "validate")
    /\ UNCHANGED <<frequency, dk, df, opt, loc, par, hist, kkv>>

\* Lines 312-329: derived series, eps_inf, diagnostics, method selection.
Prepare ==
    /\ pc = "prepare"
    /\ pc' = "transform"
    /\ LET is_uniform == _is_grid_uniform(frequency)
       IN  loc' = [loc EXCEPT
              !.omega = Array([i \in 1..Len(frequency) |-> FMul(TwoPi, frequency[i])]),
              !.eps_imag = Array([i \in 1..Len(dk) |-> FMul(dk[i], df[i])]),
              !.eps_inf = ResolveEpsInf(opt.eps_inf, frequency, dk, opt.eps_inf_method,
                                        opt.tail_fraction, opt.min_tail_points),
              !.num_peaks = _detect_peaks(df),
              !.is_uniform = is_uniform,
              !.actual_method = SelectMethod(opt.method, is_uniform)]
    /\ steps' = steps \o (IF opt.eps_inf = None
                          THEN <<"derive", "estimate", "diagnostics", "select">>
                          ELSE <<"derive", "diagnostics", "select">>)
    /\ UNCHANGED <<frequency, dk, df, opt, result, par, hist, kkv>>

\* The taper applied to eps_imag itself.
WorkingArrayIsCallersArray == TRUE

\* Line 176: x = np.asarray(eps_imag, dtype=float).copy() is a new array, so
\* the in-place taper x *= w does not reach eps_imag.
WorkingCopyAliases == FALSE

\* What the transform leaves in eps_imag: _kk_hilbert tapers its working
\* array x in place, and x is eps_imag itself unless it was copied.
EpsImagAfter(eps_imag, actual_method, is_uniform, window) ==
    IF WorkingCopyAliases /\ actual_method = "hilbert" /\ is_uniform
       /\ Len(eps_imag) >= 4 /\ Windowed(eps_imag, window, Len(eps_imag)).ok
    THEN Windowed(eps_imag, window, Len(eps_imag)).val
    ELSE eps_imag

\* Lines 331-349.
TransformStep ==
    /\ pc = "transform"
    /\ LET t == Transform(frequency, dk, loc.omega, loc.eps_imag, loc.eps_inf,
                          loc.actual_method, loc.is_uniform, opt.window,
                          opt.resample_points, opt.use_sskk, opt.anchor_index)
           left == EpsImagAfter(loc.eps_imag, loc.actual_method, loc.is_uniform,
                                opt.window)
       IN  IF t.ok
           THEN /\ pc' = "metrics"
                /\ result' = result
                /\ loc' = [loc EXCEPT
                      !.dk_kk = t.val,
                      !.method_detail = TransformDetail(loc.actual_method,
                                                        loc.is_uniform, opt.use_sskk),
                      !.eps_imag = left]
           ELSE /\ pc' = "raised"
                /\ result' = Raised(t.err)
                /\ loc' = [loc EXCEPT !.eps_imag = left]
    /\ steps' = Append(steps, "transform")
    /\ UNCHANGED <<frequency, dk, df, opt, par, hist, kkv>>

\* Lines 351-376.
MetricsStep ==
    /\ pc = "metrics"
    /\ pc' = "returned"
    /\ result' = ResultOf(loc, dk, opt)
    /\ steps' = Append(steps, "metrics")
    /\ UNCHANGED <<frequency, dk, df, opt, loc, par, hist, kkv>>

\* The call is over: its locals are gone and the caller holds the outcome.
Discard ==
    /\ pc \in {"returned", "raised"}
    /\ pc' = "idle"
    /\ frequency' = <<>>
    /\ dk' = <<>>
    /\ df' = <<>>
    /\ opt' = DefaultOptions
    /\ loc' = NoLocals
    /\ result' = NoResult
    /\ steps' = <<>>

Leave == Discard /\ UNCHANGED <<par, hist, kkv>>

NoCall ==
    /\ pc = "idle"
    /\ frequency = <<>>
    /\ dk = <<>>
    /\ df = <<>>
    /\ opt = DefaultOptions
    /\ loc = NoLocals
    /\ result = NoResult
    /\ steps = <<>>

Init == NoCall /\ par = NoKernel /\ hist = <<>> /\ kkv = NoValidator

Next == Call \/ Validate \/ Prepare \/ TransformStep \/ MetricsStep \/ Leave

Spec == Init /\ [][Next]_vars

\* ------------------------------------------------------------------------
\* The PV kernel, row by row (lines 40-93)
\* ------------------------------------------------------------------------
\* The accelerated kernel runs the body of "for i in prange(n)" as one task
\* per row; the tasks run in any order and interleave between loop passes.
\* The reference kernel runs the rows in index order in one thread.
RowGrids ==
    {g \in Grids : \A i \in 1..(Len(g) - 2) : g[i + 1] = g[i] + 1}

\* np.empty: the output array starts with whatever the memory holds.
Garbage == {Zero, NaN}

KernelCall(g, backend, junk) ==
    [omega |-> Array([i \in 1..Len(g) |-> FMul(TwoPi, F(g[i]))]),
     eps_imag |-> Array([i \in 1..Len(g) |->
                     FMul(ShapeDk("relax", Len(g))[i], ShapeDf("relax", Len(g))[i])]),
     eps_inf |-> Two,
     backend |-> backend,
     task |-> [i \in 1..Len(g) |-> [pc |-> "new", j |-> 0, integral |-> junk]],
     dk_kk |-> [i \in 1..Len(g) |-> junk],
     joined |-> FALSE]

\* Every task writing the first slot.
OutSlotFirst(i) == 1

\* dk_kk[i] = ...: the slot row task i writes.
OutSlot(i) == i

\* wi = omega[i]; integral = 0.0
RowStart ==
    /\ par.backend = "numba"
    /\ \E i \in 1..Len(par.task) :
          /\ par.task[i].pc = "new"
          /\ par' = [par EXCEPT !.task[i] = [pc |-> "loop", j |-> 1, integral |-> Zero]]
    /\ UNCHANGED <<pc, frequency, dk, df, opt, loc, result, steps, hist, kkv>>

\* One pass of "for j in range(n - 1)".
RowPanel ==
    /\ par.backend = "numba"
    /\ \E i \in 1..Len(par.task) :
          /\ par.task[i].pc = "loop"
          /\ par.task[i].j <= Len(par.omega) - 1
          /\ par' = [par EXCEPT
                !.task[i].integral = PVPanel(par.omega, par.eps_imag, par.task[i].j,
                                             par.omega[i], par.task[i].integral),
                !.task[i].j = par.task[i].j + 1]
    /\ UNCHANGED <<pc, frequency, dk, df, opt, loc, result, steps, hist, kkv>>

\* dk_kk[i] = eps_inf + (2.0 / np.pi) * integral
RowStore ==
    /\ par.backend = "numba"
    /\ \E i \in 1..Len(par.task) :
          /\ par.task[i].pc = "loop"
          /\ par.task[i].j = Len(par.omega)
          /\ par' = [par EXCEPT
                !.dk_kk[OutSlot(i)] = PVRow(par.eps_inf, par.task[i].integral),
                !.task[i].pc = "done"]
    /\ UNCHANGED <<pc, frequency, dk, df, opt, loc, result, steps, hist, kkv>>

\* End of the prange loop; return dk_kk.
Join ==
    /\ par.backend = "numba"
    /\ ~par.joined
    /\ \A i \in 1..Len(par.task) : par.task[i].pc = "done"
    /\ par' = [par EXCEPT !.joined = TRUE]
    /\ UNCHANGED <<pc, frequency, dk, df, opt, loc, result, steps, hist, kkv>>

\* The reference kernel, start to return.
Sequential ==
    /\ par.backend = "python"
    /\ ~par.joined
    /\ par' = [par EXCEPT
          !.dk_kk = _kk_trapz_python(par.omega, par.eps_imag, par.eps_inf),
          !.task = [i \in 1..Len(par.task) |->
                       [pc |-> "done", j |-> Len(par.omega),
                        integral |-> PVIntegral(par.omega, par.eps_imag, par.omega[i],
                                                Len(par.omega) - 1)]],
          !.joined = TRUE]
    /\ UNCHANGED <<pc, frequency, dk, df, opt, loc, result, steps, hist, kkv>>

InitRows ==
    /\ NoCall
    /\ hist = <<>>
    /\ kkv = NoValidator
    /\ \E g \in RowGrids : \E backend \in {"numba", "python"} : \E junk \in Garbage :
          par = KernelCall(g, backend, junk)

NextRows == RowStart \/ RowPanel \/ RowStore \/ Join \/ Sequential

SpecRows == InitRows /\ [][NextRows]_vars

\* ------------------------------------------------------------------------
\* Calls one after another
\* ------------------------------------------------------------------------
MaxCalls == 3

RepeatData ==
    {Data(<<1, 2, 3, 4>>, "relax"), Data(<<1, 2, 4, 5>>, "relax"),
     [frequency |-> <<F(2), F(1)>>, dk |-> <<One, One>>, df |-> <<One, One>>]}

RepeatOptions ==
    {DefaultOptions, [DefaultOptions EXCEPT !.window = <<"triang">>]}

Again ==
    /\ pc = "idle"
    /\ Len(hist) < MaxCalls
    /\ \E data \in RepeatData : \E o \in RepeatOptions :
          /\ Enter(data, o)
          /\ hist' = Append(hist, [given |-> data, opt |-> o, done |-> FALSE,
                                   outcome |-> NoResult, after |-> data])
    /\ UNCHANGED <<par, kkv>>

Finish ==
    /\ Discard
    /\ hist' = [hist EXCEPT ![Len(hist)] =
                   [@ EXCEPT !.done = TRUE, !.outcome = result,
                             !.after = [frequency |-> frequency, dk |-> dk, df |-> df]]]
    /\ UNCHANGED <<par, kkv>>

NextCalls == Again \/ Validate \/ Prepare \/ TransformStep \/ MetricsStep \/ Finish

SpecCalls == Init /\ [][NextCalls]_vars

\* ------------------------------------------------------------------------
\* The tabular adapter and the stateful facade (lines 404-595)
\* ------------------------------------------------------------------------
\* A DataFrame is a function from column names to columns; a cell is a float
\* or a piece of text, <<"str", 0, 0>>.
Text == <<"str", 0, 0>>

ErrColumn == "Column not found in DataFrame"
ErrNonNumeric == "DataFrame contains non-numeric or NaN values"
ErrNoResult == "Must call validate() first"
NotRunMessage == "Validation has not been run. Call .validate() first."

freq_column == "Frequency (GHz)"
dk_column == "Dk"
df_column == "Df"

\* pd.to_numeric(column, errors='coerce').to_numpy()
to_numeric(column) ==
    Array([i \in 1..Len(column) |-> IF column[i] = Text THEN NaN ELSE column[i]])

AnyNaN(a) == \E i \in 1..Len(a) : isnan(a[i])

\* Lines 432-447: what the adapter hands to validate_kramers_kronig, or the
\* error it raises before calling it.
FromDataFrame(frame) ==
    IF ~({freq_column, dk_column, df_column} \subseteq DOMAIN frame) THEN Raise(ErrColumn)
    ELSE LET freq_ghz == to_numeric(frame[freq_column])
             dkv == to_numeric(frame[dk_column])
             df_values == to_numeric(frame[df_column])
         IN  IF AnyNaN(freq_ghz) \/ AnyNaN(dkv) \/ AnyNaN(df_values)
             THEN Raise(ErrNonNumeric)
             ELSE Ok([frequency |-> Array([i \in 1..Len(freq_ghz) |->
                                        FMul(freq_ghz[i], F(1000000000))]),
                      dk |-> dkv, df |-> df_values])

\* The keys of the dict validate_kramers_kronig returns (lines 363-376).
ResultKeys ==
    {"dk_kk", "mean_relative_error", "median_relative_error", "q90_relative_error",
     "rmse", "causality_status", "eps_inf_estimated", "method_used", "method_detail",
     "num_peaks", "is_uniform_grid", "anchor_index"}

ResultDict(r) == [k \in ResultKeys |-> r[k]]

\* Lines 529-541: the keyword arguments validate() passes on.
PassedOptionsNoWindow(v, causality_threshold) ==
    [method |-> v.method, eps_inf_method |-> v.eps_inf_method,
     eps_inf |-> v.explicit_eps_inf, tail_fraction |-> v.tail_fraction,
     min_tail_points |-> v.min_tail_points, window |-> None,
     resample_points |-> v.resample_points,
     causality_threshold |-> causality_threshold, use_sskk |-> v.use_sskk,
     anchor_index |-> v.anchor_index]

PassedOptions(v, causality_threshold) ==
    [method |-> v.method, eps_inf_method |-> v.eps_inf_method,
     eps_inf |-> v.explicit_eps_inf, tail_fraction |-> v.tail_fraction,
     min_tail_points |-> v.min_tail_points, window |-> v.window,
     resample_points |-> v.resample_points,
     causality_threshold |-> causality_threshold, use_sskk |-> v.use_sskk,
     anchor_index |-> v.anchor_index]

\* Lines 508-513: the constructor's window test.
InitWindowErrorDeferred(window) == ""
InitWindowError(window) ==
    IF window # None /\ ~get_window(window, 16).ok THEN ErrWindow ELSE ""

\* "if not self.results": the dict is empty.
NoCache(results) == DOMAIN results = {}

\* Lines 547-548 and 554-555: the error of an accessor, "" for none.
NoResultErrorAlways(results) == ErrNoResult
NoResultError(results) == IF NoCache(results) THEN ErrNoResult ELSE ""

\* self.results = kramers_kronig_from_dataframe(...)
CacheAfterFirstOnly(old, new) == IF DOMAIN old = {} THEN new ELSE old
CacheAfter(old, new) == new

\* Line 529 when the call raises: the assignment does not happen.
CacheOnFailureCleared(old) == [k \in {} |-> <<>>]
CacheOnFailure(old) == old

\* get_diagnostics, line 560: whether it calls self.validate().
DiagnosticsValidatesAlways(results) == TRUE
DiagnosticsValidates(results) == NoCache(results)

\* get_report, line 584: whether it returns the "not run" message.
ReportStopsAlways(results) == TRUE
ReportStops(results) == NoCache(results)

Value(op, v) == [op |-> op, kind |-> "value", value |-> v]
Error(op, msg) == [op |-> op, kind |-> "error", value |-> msg]
Pending(op) == [op |-> op, kind |-> "none", value |-> <<>>]

\* round(x * 10^k) as an integer, half to even: the digits a fixed-point
\* format of x with k decimals prints (x >= 0, small enough to fit).
Fixed(x, k) ==
    LET n == x[2] * 10 ^ k
    IN  IF x[3] >= 0 THEN n * 2 ^ x[3]
        ELSE IF 0 - x[3] > 30 THEN 0
        ELSE RoundShift(n, 0 - x[3])

\* np.argmax: the first NaN when there is one, else the first maximum.
ArgMax(a) ==
    IF AnyNaN(a)
    THEN CHOOSE i \in 1..Len(a) : isnan(a[i]) /\ \A j \in 1..(i - 1) : ~isnan(a[j])
    ELSE CHOOSE i \in 1..Len(a) :
             /\ \A j \in 1..Len(a) : ~FLt(a[i], a[j])
             /\ \A j \in 1..(i - 1) : FLt(a[j], a[i])

SeqMin(a) == CHOOSE x \in {a[i] : i \in 1..Len(a)} : \A j \in 1..Len(a) : ~FLt(a[j], x)

\* Lines 563-580: the bundle; the cached result's entries, unpacked last,
\* take precedence over the extra ones of the same name.
Diagnostics(v) ==
    LET freq_ghz == to_numeric(v.df[freq_column])
        df_values == to_numeric(v.df[df_column])
    IN  v.results @@
        [grid_uniform |-> v.results["is_uniform_grid"],
         num_points |-> Len(freq_ghz),
         freq_range_ghz |-> IF AnyNaN(freq_ghz) THEN <<NaN, NaN>>
                            ELSE <<SeqMin(freq_ghz), SeqMax(freq_ghz, Len(freq_ghz))>>,
         eps_inf |-> v.results["eps_inf_estimated"],
         method_used |-> v.results["method_used"],
         method_detail |-> v.results["method_detail"],
         max_df_freq_ghz |-> freq_ghz[ArgMax(df_values)],
         num_peaks |-> v.results["num_peaks"]]

\* Lines 563-564: self.df[...] raises KeyError for a column that is not in
\* the table; otherwise get_diagnostics returns the bundle.
ErrKey == "KeyError"

DiagnosticsReturn(v) ==
    IF ~({freq_column, df_column} \subseteq DOMAIN v.df)
    THEN Error("get_diagnostics", ErrKey)
    ELSE Value("get_diagnostics", Diagnostics(v))

\* The text a fixed-point format prints for x: "nan" or "inf", else digits.
Format(x, k) == IF x[1] # "fin" THEN <<x[1]>> ELSE <<Fixed(x, k)>>

\* Lines 587-595: the report, as its title and the values its four lines
\* print; ":.2%" prints hundredths of a percent, ":.4f" ten-thousandths.
Report(results) ==
    <<"Kramers-Kronig Causality Report",
      results["causality_status"],
      Format(results["mean_relative_error"], 4),
      Format(results["median_relative_error"], 4),
      Format(results["rmse"], 4)>>

\* The attributes of the object, without the bookkeeping of the model.
Object(v) ==
    [df |-> v.df, method |-> v.method, eps_inf_method |-> v.eps_inf_method,
     explicit_eps_inf |-> v.explicit_eps_inf, tail_fraction |-> v.tail_fraction,
     min_tail_points |-> v.min_tail_points, window |-> v.window,
     resample_points |-> v.resample_points, use_sskk |-> v.use_sskk,
     anchor_index |-> v.anchor_index, results |-> v.results]

Snapshot(v, op) ==
    [v EXCEPT !.op = op, !.ret = Pending(op), !.cached = v.results, !.calls = v.nvalidate]

\* Datasets a validator is bound to: an evenly and an unevenly spaced table
\* (the even one in steps that stay even when scaled to Hz at SigBits), a
\* lossless one, one with a text cell, one out of order, one without 'Df'.
Frame(g, shape) ==
    [c \in {freq_column, dk_column, df_column} |->
        IF c = freq_column THEN Floats(g)
        ELSE IF c = dk_column THEN ShapeDk(shape, Len(g)) ELSE ShapeDf(shape, Len(g))]

Frames ==
    {Frame(<<5, 10, 15, 20>>, "relax"), Frame(<<1, 2, 4, 5>>, "relax"),
     Frame(<<5, 10, 15, 20>>, "flat"),
     [Frame(<<1, 2, 3>>, "relax") EXCEPT ![freq_column] = <<F(1), F(2), Text>>],
     [Frame(<<1, 2, 3>>, "relax") EXCEPT ![freq_column] = <<F(1), F(3), F(2)>>],
     [c \in {freq_column, dk_column} |-> <<F(1), F(2)>>]}

Windows == {None, <<"triang">>, <<"kaiser", Zero>>, <<"kaiser">>, <<"bogus">>}

Configs ==
    {[DefaultOptions EXCEPT !.method = m, !.window = w] :
        m \in {"auto", "hilbert", "trapz"}, w \in Windows}

\* KramersKronigValidator(df, ...), lines 496-513.  When the window test
\* raises, the caller gets no object.
Construct ==
    /\ ~kkv.exists
    /\ kkv.ret.kind = "none"
    /\ \E frame \in Frames : \E c \in Configs :
          LET e == InitWindowError(c.window)
              args == [df |-> frame, method |-> c.method,
                       eps_inf_method |-> c.eps_inf_method, eps_inf |-> c.eps_inf,
                       tail_fraction |-> c.tail_fraction,
                       min_tail_points |-> c.min_tail_points, window |-> c.window,
                       resample_points |-> c.resample_points, use_sskk |-> c.use_sskk,
                       anchor_index |-> c.anchor_index]
          IN  IF e # ""
              THEN kkv' = [kkv EXCEPT !.args = args, !.ret = Error("__init__", e)]
              ELSE kkv' = [kkv EXCEPT
                      !.exists = TRUE, !.df = frame, !.method = c.method,
                      !.eps_inf_method = c.eps_inf_method,
                      !.explicit_eps_inf = c.eps_inf,
                      !.tail_fraction = c.tail_fraction,
                      !.min_tail_points = c.min_tail_points, !.window = c.window,
                      !.resample_points = c.resample_points, !.use_sskk = c.use_sskk,
                      !.anchor_index = c.anchor_index, !.results = NoResults,
                      !.args = args, !.ret = Value("__init__", <<>>)]
    /\ UNCHANGED <<pc, frequency, dk, df, opt, loc, result, steps, par, hist>>

\* validate(causality_threshold) up to the orchestrator call, for the caller
\* (op "validate") or for get_diagnostics.  An adapter error ends it at once.
BeginValidate(v, op, causality_threshold) ==
    LET data == FromDataFrame(v.df)
        w == [v EXCEPT !.nvalidate = v.nvalidate + 1]
    IN  IF data.ok
        THEN /\ Enter(data.val, PassedOptions(v, causality_threshold))
             /\ hist' = Append(hist, [given |-> data.val,
                                      opt |-> PassedOptions(v, causality_threshold),
                                      done |-> FALSE, outcome |-> NoResult,
                                      after |-> data.val])
             /\ kkv' = w
        ELSE /\ kkv' = [w EXCEPT !.op = "", !.ret = Error(op, data.err),
                                 !.results = CacheOnFailure(v.results)]
             /\ UNCHANGED <<pc, frequency, dk, df, opt, loc, result, steps, hist>>

FacadeThresholds == {Exp10(5, 2), One}

ValidateCall ==
    /\ pc = "idle"
    /\ kkv.exists
    /\ kkv.op = ""
    /\ kkv.nvalidate < MaxCalls
    /\ \E t \in FacadeThresholds : BeginValidate(Snapshot(kkv, "validate"), "validate", t)
    /\ UNCHANGED par

\* The orchestrator is back: validate() caches and returns the result, or the
\* error passes through validate() (and get_diagnostics) to the caller.
ValidateReturn ==
    /\ kkv.op # ""
    /\ Discard
    /\ hist' = [hist EXCEPT ![Len(hist)] =
                   [@ EXCEPT !.done = TRUE, !.outcome = result,
                             !.after = [frequency |-> frequency, dk |-> dk, df |-> df]]]
    /\ IF pc = "raised"
       THEN kkv' = [kkv EXCEPT !.op = "", !.ret = Error(kkv.op, result.error),
                               !.results = CacheOnFailure(kkv.results)]
       ELSE LET v == [kkv EXCEPT !.op = "",
                                 !.results = CacheAfter(kkv.results, ResultDict(result))]
            IN  kkv' = [v EXCEPT !.ret =
                          IF kkv.op = "validate" THEN Value("validate", v.results)
                          ELSE DiagnosticsReturn(v)]
    /\ UNCHANGED par

\* Lines 544-549.
IsCausal ==
    /\ pc = "idle"
    /\ kkv.exists
    /\ kkv.op = ""
    /\ LET v == Snapshot(kkv, "is_causal")
       IN  kkv' = [v EXCEPT !.op = "", !.ret =
                     IF NoResultError(v.results) # ""
                     THEN Error("is_causal", NoResultError(v.results))
                     ELSE Value("is_causal", v.results["causality_status"] = "PASS")]
    /\ UNCHANGED <<pc, frequency, dk, df, opt, loc, result, steps, par, hist>>

\* Lines 551-556.
RelativeError ==
    /\ pc = "idle"
    /\ kkv.exists
    /\ kkv.op = ""
    /\ LET v == Snapshot(kkv, "relative_error")
       IN  kkv' = [v EXCEPT !.op = "", !.ret =
                     IF NoResultError(v.results) # ""
                     THEN Error("relative_error", NoResultError(v.results))
                     ELSE Value("relative_error", v.results["mean_relative_error"])]
    /\ UNCHANGED <<pc, frequency, dk, df, opt, loc, result, steps, par, hist>>

\* Lines 558-580: with a cache the bundle at once, else validate() first.
GetDiagnostics ==
    /\ pc = "idle"
    /\ kkv.exists
    /\ kkv.op = ""
    /\ LET v == Snapshot(kkv, "get_diagnostics")
       IN  IF DiagnosticsValidates(v.results)
           THEN /\ v.nvalidate < MaxCalls
                /\ BeginValidate(v, "get_diagnostics", Exp10(5, 2))
           ELSE /\ kkv' = [v EXCEPT !.op = "", !.ret = DiagnosticsReturn(v)]
                /\ UNCHANGED <<pc, frequency, dk, df, opt, loc, result, steps, hist>>
    /\ UNCHANGED par

\* Lines 582-595.
GetReport ==
    /\ pc = "idle"
    /\ kkv.exists
    /\ kkv.op = ""
    /\ LET v == Snapshot(kkv, "get_report")
       IN  kkv' = [v EXCEPT !.op = "", !.ret =
                     IF ReportStops(v.results) THEN Value("get_report", <<NotRunMessage>>)
                     ELSE Value("get_report", Report(v.results))]
    /\ UNCHANGED <<pc, frequency, dk, df, opt, loc, result, steps, par, hist>>

NextFacade ==
    \/ Construct \/ ValidateCall \/ Validate \/ Prepare \/ TransformStep \/ MetricsStep
    \/ ValidateReturn \/ IsCausal \/ RelativeError \/ GetDiagnostics \/ GetReport

SpecFacade == Init /\ [][NextFacade]_vars

\* What a caller makes of a table that validated: a text cell typed into
\* it, two rows swapped, the 'Df' column dropped.
EditedFrames == {frame \in Frames : Len(frame[freq_column]) < 4}

\* Line 496, self.df = df: the validator holds the caller's table, not a
\* copy, so what the caller does to the table between two operations is
\* what the next validate() reads.
EditFrame ==
    /\ pc = "idle"
    /\ kkv.exists
    /\ kkv.op = ""
    /\ kkv.df \notin EditedFrames
    /\ \E frame \in EditedFrames :
          /\ kkv' = [kkv EXCEPT !.df = frame, !.args = [@ EXCEPT !.df = frame]]
    /\ UNCHANGED <<pc, frequency, dk, df, opt, loc, result, steps, par, hist>>

NextEdits == NextFacade \/ EditFrame

SpecEdits == Init /\ [][NextEdits]_vars

\* ------------------------------------------------------------------------
\* Properties
\* ------------------------------------------------------------------------
Over == pc \in {"returned", "raised"}
Returned == pc = "returned"
Selected == pc \in {"transform", "metrics", "returned"} \/ (pc = "raised" /\ Len(steps) > 1)

\* C1: for every input that passes validation, method 'auto' executes
\* 'hilbert' exactly when the grid is classified uniform and 'trapz'
\* otherwise; an explicit 'hilbert' or 'trapz' executes as requested whatever
\* the grid; a returned result reports the executed method.
C1_MethodSelection ==
    Selected =>
        /\ loc.is_uniform = _is_grid_uniform(frequency)
        /\ opt.method = "auto" =>
              /\ loc.actual_method = "hilbert" <=> loc.is_uniform
              /\ loc.actual_method = "trapz" <=> ~loc.is_uniform
        /\ opt.method \in {"hilbert", "trapz"} => loc.actual_method = opt.method
        /\ Returned => result.method_used = loc.actual_method

C1_Witness ==
    /\ Returned
    /\ opt.method = "auto"
    /\ ~result.is_uniform_grid
    /\ result.method_used = "trapz"
    /\ result.method_detail = "trapz-sskk"

\* C2: in every returned result the method-detail tag is fixed by the
\* executed method, the grid's uniformity and use_sskk: hilbert-uniform,
\* hilbert-resample, trapz-sskk or trapz-pv; use_sskk plays no part under
\* hilbert.
C2_MethodDetail ==
    Returned =>
        /\ result.method_used = "hilbert" /\ result.is_uniform_grid
              => result.method_detail = "hilbert-uniform"
        /\ result.method_used = "hilbert" /\ ~result.is_uniform_grid
              => result.method_detail = "hilbert-resample"
        /\ result.method_used = "trapz" /\ opt.use_sskk
              => result.method_detail = "trapz-sskk"
        /\ result.method_used = "trapz" /\ ~opt.use_sskk
              => result.method_detail = "trapz-pv"

C2_Witness ==
    /\ Returned
    /\ opt.method = "hilbert"
    /\ ~opt.use_sskk
    /\ ~result.is_uniform_grid
    /\ result.method_detail = "hilbert-resample"

\* C3: in every returned result causality_status is PASS exactly when the
\* reported mean relative error is at most the call's threshold (equality
\* passes) and FAIL otherwise; so a PASS stays a PASS under every larger
\* threshold.
C3_CausalityVerdict ==
    Returned =>
        /\ result.causality_status \in {"PASS", "FAIL"}
        /\ result.causality_status = "PASS"
              <=> FLeq(result.mean_relative_error, opt.causality_threshold)
        /\ result.causality_status = "PASS" =>
              \A t \in Thresholds :
                  FLeq(opt.causality_threshold, t)
                      => CausalityStatus(result.mean_relative_error, t) = "PASS"

C3_Witness ==
    /\ Returned
    /\ result.mean_relative_error = opt.causality_threshold
    /\ result.causality_status = "PASS"

\* The five input checks as the contract lists them.
CheckPasses(k) ==
    CASE k = 1 -> Len(frequency) = Len(dk) /\ Len(frequency) = Len(df)
      [] k = 2 -> Len(frequency) >= 2
      [] k = 3 -> \A i \in 1..(Len(frequency) - 1) :
                      DiffPositive(frequency[i + 1], frequency[i])
      [] k = 4 -> \A i \in 1..Len(frequency) : ~NonPositive(frequency[i])
      [] k = 5 -> AllFinite(frequency) /\ AllFinite(dk) /\ AllFinite(df)

CheckMessage(k) ==
    CASE k = 1 -> ErrLength
      [] k = 2 -> ErrCount
      [] k = 3 -> ErrIncreasing
      [] k = 4 -> ErrPositive
      [] k = 5 -> ErrFinite

ViolatedChecks == {k \in 1..5 : ~CheckPasses(k)}

FirstViolated == CHOOSE k \in ViolatedChecks : \A m \in ViolatedChecks : k <= m

\* C4: a call that violates one or more of the five input checks raises the
\* error of the first violated check in the order lengths, count, increasing,
\* positive, finite, and returns nothing; no estimation, diagnostic or
\* transform step runs unless all five checks passed.
C4_ValidationOrder ==
    /\ (pc \notin {"idle", "validate"} /\ ViolatedChecks # {}) =>
          /\ pc = "raised"
          /\ result.kind = "error"
          /\ result.error = CheckMessage(FirstViolated)
          /\ result.dk_kk = <<>>
          /\ steps = <<"validate">>
    /\ (\E n \in 1..Len(steps) : steps[n] # "validate") =>
          /\ ViolatedChecks = {}
          /\ steps[1] = "validate"
    /\ (pc = "raised" /\ ViolatedChecks = {}) => Len(steps) > 1

C4_Witness ==
    /\ pc = "raised"
    /\ ViolatedChecks = {3, 4}
    /\ result.error = ErrIncreasing

C6_HilbertNeedsFour ==
    (Over /\ ViolatedChecks = {} /\ loc.actual_method = "hilbert") =>
        /\ Len(frequency) < 4 =>
              /\ pc = "raised"
              /\ result.error = ErrHilbertPoints
        /\ (Len(frequency) >= 4 /\ loc.is_uniform) => result.error # ErrHilbertPoints
        /\ (Len(frequency) = 4 /\ loc.is_uniform /\ opt.method = "auto"
            /\ opt.window \in {None, <<"triang">>}) =>
              /\ Returned
              /\ result.method_used = "hilbert"
              /\ result.method_detail = "hilbert-uniform"

\* The anchor sample of a call, as a position in 1..N.
AnchorAt ==
    IF opt.anchor_index = None THEN (Len(frequency) \div 2) + 1
    ELSE IF opt.anchor_index[1] >= 0 THEN opt.anchor_index[1] + 1
    ELSE Len(frequency) + opt.anchor_index[1] + 1

\* C7: when the SSKK form has executed, the reconstructed value at the
\* anchor sample equals the measured one, dk_kk[a] = dk[a], a being the
\* caller's anchor_index or else the middle index N div 2, and it is finite.
C7_AnchorExact ==
    (pc \in {"metrics", "returned"} /\ loc.method_detail = "trapz-sskk") =>
        /\ AnchorAt \in 1..Len(frequency)
        /\ loc.dk_kk[AnchorAt] = dk[AnchorAt]
        /\ isfinite(loc.dk_kk[AnchorAt])
        /\ Returned => result.dk_kk[AnchorAt] = dk[AnchorAt]

C7_Witness ==
    /\ Returned
    /\ result.method_detail = "trapz-sskk"
    /\ opt.anchor_index = <<Len(frequency) - 1>>
    /\ Len(frequency) >= 3
    /\ \E k \in 1..Len(frequency) : result.dk_kk[k] # dk[k]
    /\ result.dk_kk[Len(frequency)] = dk[Len(frequency)]

\* The term of endpoint k for target sample i: zero at sample i itself.
EndpointTerm(w, y, k, i) ==
    IF k = i THEN Zero
    ELSE FDiv(FMul(w[k], y[k]), FSub(FMul(w[k], w[k]), FMul(w[i], w[i])))

RECURSIVE PanelSum(_, _, _, _)
PanelSum(w, y, i, j) ==
    IF j = 0 THEN Zero
    ELSE FAdd(PanelSum(w, y, i, j - 1),
              FMul(FMul(Half, FAdd(EndpointTerm(w, y, j, i), EndpointTerm(w, y, j + 1, i))),
                   FSub(w[j + 1], w[j])))

\* C8: in the basic PV transform, sample i of the output is eps_inf +
\* (2/pi) * the sum over all N-1 panels of 0.5*(f_j + f_j+1)*(w_j+1 - w_j),
\* where f_k = w_k*eps_imag[k]/(w_k^2 - w_i^2) except that the endpoints
\* that are sample i itself contribute 0; the other endpoint of such a panel
\* keeps its full term and no panel is dropped.
C8_PerEndpointGuard ==
    (pc \in {"metrics", "returned"} /\ loc.method_detail = "trapz-pv") =>
        \A i \in 1..Len(frequency) :
            loc.dk_kk[i] =
                FAdd(loc.eps_inf,
                     FMul(FDiv(Two, pi),
                          PanelSum(loc.omega, loc.eps_imag, i, Len(frequency) - 1)))

C8_Witness ==
    /\ Returned
    /\ result.method_detail = "trapz-pv"
    /\ Len(frequency) >= 3
    /\ EndpointTerm(loc.omega, loc.eps_imag, 1, 2) # Zero
    /\ EndpointTerm(loc.omega, loc.eps_imag, 3, 2) # Zero
    /\ result.dk_kk[2] # loc.eps_inf

Succeeded == \E i \in 1..Len(hist) : hist[i].done /\ hist[i].outcome.kind = "result"

\* C11: while no validate() (direct, or through get_diagnostics) has
\* succeeded, is_causal and relative_error fail with 'Must call validate()
\* first' and leave the validator as it was; once one has succeeded, is_causal
\* returns a boolean and relative_error a float, without error.
C11_AccessorsNeedResult ==
    [][kkv'.ret.op \in {"is_causal", "relative_error"} =>
          IF ~Succeeded
          THEN /\ kkv'.ret.kind = "error"
               /\ kkv'.ret.value = ErrNoResult
               /\ Object(kkv') = Object(kkv)
          ELSE /\ kkv'.ret.kind = "value"
               /\ kkv'.ret.op = "is_causal" => kkv'.ret.value \in BOOLEAN
               /\ kkv'.ret.op = "relative_error" =>
                      kkv'.ret.value = kkv.results["mean_relative_error"]
                      /\ kkv'.ret.value[1] \in {"fin", "nan", "inf"}]_vars

\* is_causal has failed on a validator whose only validate() raised.
C11_Witness ==
    /\ kkv.ret.op = "is_causal"
    /\ kkv.ret.kind = "error"
    /\ kkv.ret.value = ErrNoResult
    /\ kkv.nvalidate = 1
    /\ Len(hist) = 1
    /\ hist[1].outcome.kind = "error"

\* The most recent validate() that succeeded, 0 for none.
LastSuccess ==
    IF ~Succeeded THEN 0
    ELSE CHOOSE i \in 1..Len(hist) :
            /\ hist[i].done /\ hist[i].outcome.kind = "result"
            /\ \A j \in (i + 1)..Len(hist) :
                   ~(hist[j].done /\ hist[j].outcome.kind = "result")

\* C12: the cached result is empty while no validate() has succeeded, and
\* otherwise is exactly the result the most recent successful validate()
\* returned; is_causal and relative_error read that result, so is_causal is
\* true iff that validation's mean relative error is <= the threshold that
\* call was given.
C12_CacheIsLastSuccess ==
    /\ IF LastSuccess = 0 THEN NoCache(kkv.results)
       ELSE /\ ~NoCache(kkv.results)
            /\ kkv.results = ResultDict(hist[LastSuccess].outcome)
    /\ (kkv.ret.op = "validate" /\ kkv.ret.kind = "value") =>
          /\ LastSuccess = Len(hist)
          /\ kkv.ret.value = kkv.results
    /\ (kkv.ret.op = "is_causal" /\ kkv.ret.kind = "value") =>
          kkv.ret.value = FLeq(hist[LastSuccess].outcome.mean_relative_error,
                               hist[LastSuccess].opt.causality_threshold)
    /\ (kkv.ret.op = "relative_error" /\ kkv.ret.kind = "value") =>
          kkv.ret.value = hist[LastSuccess].outcome.mean_relative_error

\* Two validations of one dataset under two thresholds disagreed, and
\* is_causal reports the second.
C12_Witness ==
    /\ Len(hist) = 2
    /\ hist[1].done /\ hist[1].outcome.kind = "result"
    /\ hist[2].done /\ hist[2].outcome.kind = "result"
    /\ hist[1].outcome.causality_status = "FAIL"
    /\ hist[2].outcome.causality_status = "PASS"
    /\ kkv.ret.op = "is_causal"
    /\ kkv.ret.kind = "value"
    /\ kkv.ret.value

\* The keys get_diagnostics adds to those of the cached result.
ExtraKeys ==
    {"grid_uniform", "num_points", "freq_range_ghz", "eps_inf", "method_used",
     "method_detail", "max_df_freq_ghz", "num_peaks"}

\* C13: get_diagnostics calls validate(), with the default threshold 0.05,
\* exactly when the cache is empty as it is called; with a cache it runs no
\* validation and leaves the cache as it was.  When it returns, a cached
\* result exists, the accessors no longer fail, and the bundle has every
\* entry of the cached result and the extra keys.
C13_DiagnosticsValidateOnce ==
    /\ kkv.op = "get_diagnostics" =>
          /\ NoCache(kkv.cached)
          /\ kkv.nvalidate = kkv.calls + 1
          /\ opt.causality_threshold = Exp10(5, 2)
          /\ opt = PassedOptions(kkv, Exp10(5, 2))
    /\ (kkv.ret.op = "get_diagnostics" /\ kkv.op = "") =>
          /\ kkv.nvalidate = kkv.calls + (IF NoCache(kkv.cached) THEN 1 ELSE 0)
          /\ ~NoCache(kkv.cached) =>
                 (kkv.results = kkv.cached /\ kkv.ret.kind = "value")
          /\ kkv.ret.kind = "value" =>
                 /\ ~NoCache(kkv.results)
                 /\ NoResultError(kkv.results) = ""
                 /\ ResultKeys \cup ExtraKeys \subseteq DOMAIN kkv.ret.value
                 /\ \A k \in ResultKeys : kkv.ret.value[k] = kkv.results[k]

\* get_diagnostics on a fresh validator has validated and returned a bundle.
C13_Witness ==
    /\ kkv.ret.op = "get_diagnostics"
    /\ kkv.ret.kind = "value"
    /\ NoCache(kkv.cached)
    /\ kkv.calls = 0
    /\ kkv.nvalidate = 1
    /\ Len(hist) = 1
    /\ kkv.ret.value["num_points"] = 4

\* n is the integer nearest to x * 10^4, for a finite x >= 0.
Nearest(n, x) ==
    IF x[3] >= 0 THEN n = x[2] * 10000 * 2 ^ x[3]
    ELSE IF 0 - x[3] > 30 THEN n = 0
    ELSE /\ (2 * n - 1) * 2 ^ (0 - x[3]) <= 2 * x[2] * 10000
         /\ 2 * x[2] * 10000 <= (2 * n + 1) * 2 ^ (0 - x[3])

\* C14: get_report returns a text, never an error, and runs no validation.
\* With an empty cache the text is the 'validation has not been run' message
\* and the cache stays empty, so the accessors still fail; with a cached
\* result it is the summary of that result (status, mean and median relative
\* error as percentages with two decimals, RMSE with four decimals) and the
\* cache is left as it was.
C14_ReportReadsOnly ==
    kkv.ret.op = "get_report" =>
       /\ kkv.ret.kind = "value"
       /\ kkv.nvalidate = kkv.calls
       /\ kkv.results = kkv.cached
       /\ IF NoCache(kkv.cached)
          THEN /\ kkv.ret.value = <<NotRunMessage>>
               /\ NoResultError(kkv.results) = ErrNoResult
          ELSE /\ Len(kkv.ret.value) = 5
               /\ kkv.ret.value[2] = kkv.cached["causality_status"]
               /\ \A i \in 3..5 :
                     LET x == kkv.cached[<<"", "", "mean_relative_error",
                                           "median_relative_error", "rmse">>[i]]
                     IN  /\ Len(kkv.ret.value[i]) = 1
                         /\ IF isfinite(x) THEN Nearest(kkv.ret.value[i][1], x)
                            ELSE kkv.ret.value[i][1] = x[1]

\* A report of a failed check with a mean error above 5 percent.
C14_Witness ==
    /\ kkv.ret.op = "get_report"
    /\ Len(kkv.ret.value) = 5
    /\ kkv.ret.value[2] = "FAIL"
    /\ kkv.ret.value[3][1] > 500
    /\ kkv.cached["mean_relative_error"] # Zero

\* scipy accepts the window specification.
ValidWindow(window) == get_window(window, 16).ok

\* C15: a constructor call with an invalid window fails with 'Invalid window
\* spec', whatever the method, before any validate(), and yields no
\* validator; so every validator that exists has no window or a valid one.
\* A valid window, a name or a (name, parameter) tuple, is stored as given.
C15_WindowCheckedAtConstruction ==
    /\ kkv.ret.op = "__init__" =>
          IF kkv.args.window # None /\ ~ValidWindow(kkv.args.window)
          THEN /\ kkv.ret.kind = "error"
               /\ kkv.ret.value = ErrWindow
               /\ ~kkv.exists
               /\ kkv.nvalidate = 0
               /\ hist = <<>>
          ELSE /\ kkv.ret.kind = "value"
               /\ kkv.exists
    /\ kkv.exists =>
          /\ kkv.window = kkv.args.window
          /\ kkv.method = kkv.args.method
          /\ kkv.window = None \/ ValidWindow(kkv.window)

\* A 'trapz' validator was refused for a window name that lacks its
\* parameter.
C15_Witness ==
    /\ kkv.ret.op = "__init__"
    /\ kkv.ret.kind = "error"
    /\ kkv.args.method = "trapz"
    /\ kkv.args.window = <<"kaiser">>
    /\ ~kkv.exists

\* The configuration the constructor was given, as keyword options of an
\* orchestrator call with threshold t.
Constructed(t) ==
    [method |-> kkv.args.method, eps_inf_method |-> kkv.args.eps_inf_method,
     eps_inf |-> kkv.args.eps_inf, tail_fraction |-> kkv.args.tail_fraction,
     min_tail_points |-> kkv.args.min_tail_points, window |-> kkv.args.window,
     resample_points |-> kkv.args.resample_points, causality_threshold |-> t,
     use_sskk |-> kkv.args.use_sskk, anchor_index |-> kkv.args.anchor_index]

\* C16: after construction no operation changes the validator's method,
\* eps_inf_method, explicit eps_inf, tail_fraction, min_tail_points, window,
\* resample_points, use_sskk, anchor_index or dataset; every validate() hands
\* the orchestrator the dataset's columns and exactly the constructed
\* options, with only causality_threshold chosen per call.
C16_ConfigurationFixed ==
    kkv.exists =>
       /\ kkv.df = kkv.args.df
       /\ PassedOptions(kkv, Zero) = Constructed(Zero)
       /\ \A i \in 1..Len(hist) :
             /\ hist[i].opt = Constructed(hist[i].opt.causality_threshold)
             /\ hist[i].given = FromDataFrame(kkv.args.df).val
       /\ pc # "idle" => opt = Constructed(opt.causality_threshold)

\* A validator with a taper has validated twice, under two thresholds.
C16_Witness ==
    /\ Len(hist) = 2
    /\ hist[2].done
    /\ hist[1].opt.causality_threshold # hist[2].opt.causality_threshold
    /\ kkv.window = <<"triang">>
    /\ kkv.method = "hilbert"
    /\ hist[2].outcome.kind = "result"

\* The call got arrays of one length with at least two samples.
ShapeOk == CheckPasses(1) /\ CheckPasses(2)

\* C17 as stated: a call whose frequency array (equal lengths, at least 2
\* samples) has a zero or negative value at any position fails with
\* 'Frequencies must be positive'.
C17_NonPositiveIsDomainError ==
    (Over /\ ShapeOk /\ ~CheckPasses(4)) =>
        (pc = "raised" /\ result.error = ErrPositive)

\* C17: a call whose frequency array (equal lengths, at least 2 samples) has
\* a zero or negative value always fails and returns nothing: with
\* 'Frequencies must be positive' when the frequencies are strictly
\* increasing, and with 'Frequencies must be strictly increasing' when they
\* are not, the monotonicity check coming first.
C17_NonPositiveRejected ==
    (Over /\ ShapeOk /\ \E i \in 1..Len(frequency) : NonPositive(frequency[i])) =>
        /\ pc = "raised"
        /\ result.kind = "error"
        /\ (\A i \in 1..(Len(frequency) - 1) : DiffPositive(frequency[i + 1], frequency[i]))
              => result.error = ErrPositive
        /\ (\E i \in 1..(Len(frequency) - 1) : ~DiffPositive(frequency[i + 1], frequency[i]))
              => result.error = ErrIncreasing

\* A negative frequency in second place was refused as not increasing.
C17_Witness ==
    /\ pc = "raised"
    /\ frequency = <<F(1), F(0 - 1)>>
    /\ Len(dk) = 2 /\ Len(df) = 2
    /\ result.error = ErrIncreasing

\* C18 as stated: a call in which any of frequency, dk and df (equal
\* lengths, at least 2 samples) contains NaN fails with 'Inputs contain
\* non-finite values'.
C18_NaNIsNonFiniteError ==
    (Over /\ ShapeOk /\ (AnyNaN(frequency) \/ AnyNaN(dk) \/ AnyNaN(df))) =>
        (pc = "raised" /\ result.error = ErrFinite)

\* C18: a call in which any of frequency, dk and df (equal lengths, at least
\* 2 samples) contains NaN always fails and returns nothing.  A NaN among
\* the frequencies fails the monotonicity check, which comes first, with
\* 'Frequencies must be strictly increasing'; a NaN in dk or df alone fails
\* with 'Inputs contain non-finite values' when the frequencies are strictly
\* increasing and positive, and with the error of the failed frequency check
\* otherwise.
C18_NaNRejected ==
    (Over /\ ShapeOk /\ (AnyNaN(frequency) \/ AnyNaN(dk) \/ AnyNaN(df))) =>
        /\ pc = "raised"
        /\ result.kind = "error"
        /\ AnyNaN(frequency) => result.error = ErrIncreasing
        /\ ~AnyNaN(frequency) =>
              result.error = IF ~CheckPasses(3) THEN ErrIncreasing
                             ELSE IF ~CheckPasses(4) THEN ErrPositive ELSE ErrFinite

\* A NaN frequency after a valid one was refused as not increasing.
C18_Witness ==
    /\ pc = "raised"
    /\ frequency = <<F(1), NaN>>
    /\ AllFinite(dk) /\ AllFinite(df)
    /\ Len(dk) = 2 /\ Len(df) = 2
    /\ result.error = ErrIncreasing

\* The SSKK form runs with an anchor_index of the caller that is no sample
\* index of the N-sample input.
BadAnchor ==
    /\ ViolatedChecks = {}
    /\ loc.actual_method # "hilbert"
    /\ opt.use_sskk
    /\ opt.anchor_index # None
    /\ (opt.anchor_index[1] < 0 \/ opt.anchor_index[1] >= Len(frequency))

\* C19 as stated: when the SSKK form executes with a caller-supplied
\* anchor_index that is negative or >= N, the call fails with a
\* configuration error (not a bare index error), returns no result, and
\* anchors at no other sample.
C19_BadAnchorRejected ==
    (Over /\ BadAnchor) =>
        /\ pc = "raised"
        /\ result.kind = "error"
        /\ result.error # ErrIndex

\* C20 as stated: every returned result, whatever the method option was,
\* has method_used 'hilbert' or 'trapz' and one of the four method_detail
\* tags, the tag beginning with method_used and naming the transform that
\* produced dk_kk.
C20_MethodTagsAgree ==
    Returned =>
        /\ result.method_used \in {"hilbert", "trapz"}
        /\ result.method_detail \in
              {"hilbert-uniform", "hilbert-resample", "trapz-pv", "trapz-sskk"}
        /\ result.method_used = "hilbert" <=>
              result.method_detail \in {"hilbert-uniform", "hilbert-resample"}
        /\ result.method_used = "trapz" <=>
              result.method_detail \in {"trapz-pv", "trapz-sskk"}
        /\ result.method_detail =
              TransformDetail(loc.actual_method, loc.is_uniform, opt.use_sskk)

\* C21: a supplied eps_inf, 0.0 included, is used as it is: the estimator
\* does not run and eps_inf_estimated is the supplied value under every
\* method, eps_inf_method, tail_fraction and min_tail_points; without one,
\* eps_inf_estimated is the estimator's value for the call's eps_inf_method,
\* tail_fraction and min_tail_points.
C21_EpsInfResolved ==
    Selected =>
        /\ opt.eps_inf # None =>
              /\ loc.eps_inf = opt.eps_inf[1]
              /\ \A i \in 1..Len(steps) : steps[i] # "estimate"
              /\ Returned => result.eps_inf_estimated = opt.eps_inf[1]
        /\ opt.eps_inf = None =>
              /\ loc.eps_inf = _estimate_eps_inf(frequency, dk, opt.eps_inf_method,
                                                 opt.tail_fraction, opt.min_tail_points)
              /\ \E i \in 1..Len(steps) : steps[i] = "estimate"
              /\ Returned => result.eps_inf_estimated = loc.eps_inf

\* A call given eps_inf = 0.0 and the 'mean' estimator returned 0.0, which
\* the estimator would not have.
C21_Witness ==
    /\ Returned
    /\ opt.eps_inf = <<Zero>>
    /\ opt.eps_inf_method = "mean"
    /\ opt.method = "hilbert"
    /\ result.eps_inf_estimated = Zero
    /\ _estimate_eps_inf(frequency, dk, "mean", opt.tail_fraction, opt.min_tail_points) # Zero

\* The estimator ran in this call.
Estimated == Selected /\ opt.eps_inf = None

\* The last n samples of a, none for n = 0.
LastN(a, n) == Array([i \in 1..n |-> a[Len(a) - n + i]])

\* The integer nearest to a float x >= 0, halves to the even neighbour.
NearestInt(x) ==
    IF x[3] >= 0 THEN x[2] * 2 ^ x[3]
    ELSE IF 0 - x[3] > 30 THEN 0
    ELSE RoundShift(x[2], 0 - x[3])

\* clamp(max(min_tail_points, round(tail_fraction * N)), upper bound N)
RoundedTailSize(N, tail_fraction, min_tail_points) ==
    IMin(IMax(min_tail_points, NearestInt(FMul(tail_fraction, F(N)))), N)

\* C22 as stated: the estimator's tail has
\* min(N, max(min_tail_points, round(tail_fraction * N))) samples, the product
\* rounded to the nearest integer, so that the estimate is the one made on
\* that many last samples; N = 36, tail_fraction = 0.1, min_tail_points = 3
\* gives a tail of 4.
C22_TailSizeRounds ==
    Estimated =>
        LET n == RoundedTailSize(Len(frequency), opt.tail_fraction, opt.min_tail_points)
        IN  /\ TailSize(Len(frequency), opt.tail_fraction, opt.min_tail_points) = n
            /\ loc.eps_inf = EstimateFromTail(SliceFrom(frequency, 0 - n),
                                              SliceFrom(dk, 0 - n), opt.eps_inf_method)
            /\ TailSize(36, Exp10(1, 1), 3) = 4

\* C23: with 'fit' and a tail of fewer than 3 samples the estimate is the
\* one 'mean' gives on that tail, the arithmetic mean of its dk values, and
\* nothing is raised; with 3 or more tail samples it is the regression
\* intercept.  A valid 2-sample call with method 'trapz' and the default
\* estimation options returns a result.
C23_FitFallsBackToMean ==
    /\ (Estimated /\ opt.eps_inf_method = "fit") =>
          LET n_tail == TailSize(Len(frequency), opt.tail_fraction, opt.min_tail_points)
              tail_freq == SliceFrom(frequency, 0 - n_tail)
              tail_dk == SliceFrom(dk, 0 - n_tail)
          IN  IF Len(tail_dk) < 3
              THEN /\ loc.eps_inf = mean(tail_dk)
                   /\ loc.eps_inf = _estimate_eps_inf(frequency, dk, "mean",
                                          opt.tail_fraction, opt.min_tail_points)
              ELSE loc.eps_inf = linregress_intercept(
                      Array([i \in 1..Len(tail_freq) |->
                                FDiv(One, FMul(tail_freq[i], tail_freq[i]))]), tail_dk)
    /\ (Over /\ ViolatedChecks = {} /\ Len(frequency) = 2 /\ opt.method = "trapz"
           /\ opt.eps_inf = None /\ opt.eps_inf_method = "fit"
           /\ opt.tail_fraction = Exp10(1, 1) /\ opt.min_tail_points = 3
           /\ opt.anchor_index = None) =>
          /\ Returned
          /\ result.eps_inf_estimated = mean(dk)

\* A 4-sample call with a 2-sample tail and 'fit' returned the mean of the
\* last two dk values, which is not the intercept of the line through them.
C23_Witness ==
    /\ Returned
    /\ opt.eps_inf = None
    /\ opt.eps_inf_method = "fit"
    /\ Len(frequency) = 4
    /\ TailSize(4, opt.tail_fraction, opt.min_tail_points) = 2
    /\ result.eps_inf_estimated = mean(<<dk[3], dk[4]>>)
    /\ result.eps_inf_estimated #
          EstimateFromTailAlwaysFits(<<frequency[3], frequency[4]>>, <<dk[3], dk[4]>>, "fit")

\* C30 as stated: the estimate is made on exactly the n last samples, with
\* n = min(N, max(min_tail_points, floor(tail_fraction * N))), and on no
\* more, also when n is 0.
C30_TailIsLastN ==
    Estimated =>
        LET n == TailSize(Len(frequency), opt.tail_fraction, opt.min_tail_points)
        IN  loc.eps_inf = EstimateFromTail(LastN(frequency, n), LastN(dk, n),
                                           opt.eps_inf_method)

\* C24: the peak count is reported as num_peaks and read by nothing else:
\* the executed method, dk_kk, the metrics and the verdict are what selection,
\* transform and metrics give without it, and a run in which the peak
\* detector had returned any other count would differ in num_peaks alone.
C24_PeaksDiagnosticOnly ==
    /\ Selected =>
          /\ loc.num_peaks = _detect_peaks(df)
          /\ loc.actual_method = SelectMethod(opt.method, _is_grid_uniform(frequency))
    /\ Returned =>
          /\ result.num_peaks = _detect_peaks(df)
          /\ loc.dk_kk = Transform(frequency, dk, loc.omega, loc.eps_imag, loc.eps_inf,
                                    loc.actual_method, loc.is_uniform, opt.window,
                                    opt.resample_points, opt.use_sskk, opt.anchor_index).val
          /\ \A p \in 0..MaxN :
                ResultOf([loc EXCEPT !.num_peaks = p], dk, opt)
                    = [result EXCEPT !.num_peaks = p]

\* A spectrum with one loss peak passed.
C24_Witness ==
    /\ Returned
    /\ result.num_peaks = 1
    /\ result.causality_status = "PASS"
    /\ _detect_peaks(df) = 1

\* Largest pad_factor tried.
MaxPad == 3

\* [-x[n-1], ..., -x[0], 0, x[0], ..., x[n-1]] followed by zeros up to
\* pad_factor * (2n + 1) samples, written position by position.
ExtendedSeries(x, pad_factor) ==
    LET n == Len(x)
    IN  [p \in 1..(pad_factor * (2 * n + 1)) |->
            IF p <= n THEN FNeg(x[n + 1 - p])
            ELSE IF p = n + 1 THEN Zero
            ELSE IF p <= 2 * n + 1 THEN x[p - n - 1]
            ELSE Zero]

\* The uniform-grid Hilbert transform ran to its end in this call.
HilbertRan == pc \in {"metrics", "returned"} /\ loc.method_detail = "hilbert-uniform"

\* C25: in the Hilbert transform of n >= 4 samples x, for every pad_factor
\* from 1 on, the extended series is the negated reversed x, a zero, then
\* x: 2n+1 samples, antisymmetric about the zero at position n; the padding
\* comes after it, up to pad_factor * (2n+1) samples, and moves no sample;
\* the output is the n transformed samples at positions n+1 .. 2n, sample k
\* for input k, without the central zero and without padding.
C25_OddExtensionCausalHalf ==
    HilbertRan =>
        LET n == Len(loc.omega)
            x == Windowed(loc.eps_imag, opt.window, n).val
            ext == OddExtension(x)
        IN  /\ n >= 4
            /\ Len(ext) = 2 * n + 1
            /\ ext[n + 1] = Zero
            /\ \A k \in 1..n : ext[n + 1 + k] = x[k] /\ ext[n + 1 - k] = FNeg(x[k])
            /\ \A pad \in 1..MaxPad :
                  LET padded == ZeroPad(ext, pad)
                      out == _kk_hilbert(loc.omega, loc.eps_imag, loc.eps_inf,
                                         opt.window, pad).val
                  IN  /\ padded = ExtendedSeries(x, pad)
                      /\ Len(padded) = pad * (2 * n + 1)
                      /\ Len(out) = n
                      /\ \A k \in 1..n :
                            out[k] = FAdd(loc.eps_inf,
                                          hilbert_imag(ExtendedSeries(x, pad))[n + 1 + k])
            /\ loc.dk_kk = _kk_hilbert(loc.omega, loc.eps_imag, loc.eps_inf,
                                       opt.window, 2).val

\* A tapered 4-sample spectrum with a loss peak went through the transform.
C25_Witness ==
    /\ pc = "returned"
    /\ result.method_detail = "hilbert-uniform"
    /\ Len(frequency) = 4
    /\ opt.window = <<"triang">>
    /\ loc.eps_imag[2] # loc.eps_imag[3]
    /\ result.dk_kk[1] # result.dk_kk[4]

\* C26 as stated: the result's anchor_index holds a value exactly when the
\* SSKK form ran, and then it is the index of the anchor sample used, the
\* caller's or the median index by default; after the Hilbert path or the
\* plain PV form it is empty.
C26_AnchorFieldIsAnchorUsed ==
    Returned =>
        /\ result.anchor_index # None <=> result.method_detail = "trapz-sskk"
        /\ result.method_detail = "trapz-sskk" =>
              result.anchor_index =
                  <<PyIndex(Len(frequency), AnchorIdx0(opt.anchor_index, Len(frequency))) - 1>>

\* The transform step of a call that selected 'trapz' is over.
TrapzRan ==
    /\ Selected
    /\ pc \in {"metrics", "returned", "raised"}
    /\ loc.actual_method = "trapz"

\* C27: when the executed method is trapz the window plays no part: with
\* any window, an invalid one included, the transform and the result are
\* those of the same call with window=None, and no window error is raised.
C27_WindowIgnoredByTrapz ==
    TrapzRan =>
        LET t == Transform(frequency, dk, loc.omega, loc.eps_imag, loc.eps_inf,
                           loc.actual_method, loc.is_uniform, None,
                           opt.resample_points, opt.use_sskk, opt.anchor_index)
        IN  /\ pc = "raised" => (~t.ok /\ result.error = t.err)
            /\ result.error # ErrWindow
            /\ pc \in {"metrics", "returned"} => (t.ok /\ loc.dk_kk = t.val)
            /\ Returned =>
                  result = ResultOf([loc EXCEPT !.dk_kk = t.val], dk,
                                    [opt EXCEPT !.window = None])

\* A 'trapz' call given a window scipy does not know returned a result.
C27_Witness ==
    /\ Returned
    /\ opt.window = <<"bogus">>
    /\ result.method_used = "trapz"
    /\ result.method_detail = "trapz-sskk"

\* High-frequency limits a run of the same call could have had: supplied
\* ones, and the estimates under every estimation option of the model.
OtherEpsInf ==
    {Zero, One, F(3)}
    \cup {_estimate_eps_inf(frequency, dk, em, tl[1], tl[2]) :
             em \in {"mean", "fit"}, tl \in TailChoices}

\* The transform of this call had its eps_inf been e.
TransformWith(e) ==
    Transform(frequency, dk, loc.omega, loc.eps_imag, e, loc.actual_method,
              loc.is_uniform, opt.window, opt.resample_points, opt.use_sskk,
              opt.anchor_index).val

\* The uniform grid of the resampling path of this call, and the Hilbert
\* transform on it had eps_inf been e.
UniformGrid ==
    linspace(loc.omega[1], loc.omega[Len(loc.omega)],
             IF opt.resample_points = None \/ opt.resample_points = <<0>>
             THEN IMin(8192, 4 * Len(frequency))
             ELSE opt.resample_points[1])

UniformHilbert(e) ==
    _kk_hilbert(UniformGrid, interp1d(loc.omega, loc.eps_imag, UniformGrid).val,
                e, opt.window, 2).val

\* C29: when the SSKK form runs, dk_kk, the four error metrics and the
\* verdict do not depend on the high-frequency limit: under any other
\* eps_inf, supplied or estimated with any eps_inf_method, tail_fraction and
\* min_tail_points, the result differs in eps_inf_estimated alone.  On the
\* uniform Hilbert path and the plain PV path eps_inf is added to every
\* dk_kk sample; on the resampling Hilbert path it is added to every sample
\* on the uniform grid, which is then interpolated back.
C29_SskkIgnoresEpsInf ==
    /\ (pc \in {"metrics", "returned"} /\ loc.method_detail = "trapz-sskk") =>
          \A e \in OtherEpsInf :
              /\ TransformWith(e) = loc.dk_kk
              /\ Returned =>
                    ResultOf([loc EXCEPT !.eps_inf = e, !.dk_kk = TransformWith(e)], dk, opt)
                        = [result EXCEPT !.eps_inf_estimated = e]
    /\ (pc \in {"metrics", "returned"}
           /\ loc.method_detail \in {"trapz-pv", "hilbert-uniform"}) =>
          \A i \in 1..Len(frequency) :
              loc.dk_kk[i] = FAdd(loc.eps_inf, TransformWith(Zero)[i])
    /\ (pc \in {"metrics", "returned"} /\ loc.method_detail = "hilbert-resample") =>
          /\ \A k \in 1..Len(UniformGrid) :
                UniformHilbert(loc.eps_inf)[k] = FAdd(loc.eps_inf, UniformHilbert(Zero)[k])
          /\ loc.dk_kk = interp1d(UniformGrid, UniformHilbert(loc.eps_inf), loc.omega).val

\* An SSKK call with a supplied eps_inf of 0.0 returned a dk_kk that is not
\* all zero and that the estimated eps_inf would have left the same.
C29_Witness ==
    /\ Returned
    /\ result.method_detail = "trapz-sskk"
    /\ opt.eps_inf = <<Zero>>
    /\ Len(frequency) = 4
    /\ _estimate_eps_inf(frequency, dk, "fit", Exp10(1, 1), 3) # Zero
    /\ \E i \in 1..4 : result.dk_kk[i] # dk[i]

\* The last validate() to have come back from the orchestrator raised.
LastRaised ==
    /\ Len(hist) > 0
    /\ hist[Len(hist)].done
    /\ hist[Len(hist)].outcome.kind # "result"

\* C28: a validate() that fails, in the adapter or in the orchestrator,
\* directly or through get_diagnostics, leaves the cached result as it was
\* when the call began.  An empty cache stays empty, so is_causal still
\* fails with 'Must call validate() first'; a cached result is retained, so
\* is_causal, relative_error and get_report keep reporting the most recent
\* validation that succeeded, whatever has become of the table since.
C28_FailedValidateKeepsCache ==
    /\ (kkv.ret.kind = "error" /\ kkv.ret.op \in {"validate", "get_diagnostics"}) =>
          /\ kkv.ret.op = "validate" => kkv.calls < kkv.nvalidate
          /\ kkv.results = kkv.cached
    /\ IF LastSuccess = 0 THEN NoCache(kkv.results)
       ELSE kkv.results = ResultDict(hist[LastSuccess].outcome)
    /\ (kkv.ret.op \in {"is_causal", "relative_error"} /\ LastSuccess = 0) =>
          /\ kkv.ret.kind = "error"
          /\ kkv.ret.value = ErrNoResult
    /\ (kkv.ret.op = "is_causal" /\ LastSuccess > 0) =>
          /\ kkv.ret.kind = "value"
          /\ kkv.ret.value = (hist[LastSuccess].outcome.causality_status = "PASS")
    /\ (kkv.ret.op = "relative_error" /\ LastSuccess > 0) =>
          /\ kkv.ret.kind = "value"
          /\ kkv.ret.value = hist[LastSuccess].outcome.mean_relative_error
    /\ (kkv.ret.op = "get_report" /\ LastSuccess > 0) =>
          /\ kkv.ret.kind = "value"
          /\ kkv.ret.value = Report(ResultDict(hist[LastSuccess].outcome))

\* A validation succeeded, the table was then put out of order, the next
\* validate() raised, and is_causal answers from the first validation.
C28_Witness ==
    /\ Len(hist) = 2
    /\ hist[1].done /\ hist[1].outcome.kind = "result"
    /\ LastRaised
    /\ hist[2].outcome.error = ErrIncreasing
    /\ kkv.ret.op = "is_causal"
    /\ kkv.ret.kind = "value"
    /\ kkv.results = ResultDict(hist[1].outcome)
====
